---- MODULE Spec2Model ----
(***************************************************************************)
(* USB Explorer: the live device map of USBMonitor, its bisection test     *)
(* (test_hub), its passive learning sessions (_analyze_disconnects) and    *)
(* the saved physical groups of ConfigManager.                             *)
(***************************************************************************)
EXTENDS Integers, Sequences, FiniteSets, TLC

VARIABLES
    world,                    \* the ports of the host that devices appear at
    clock,                    \* the readings time.time() can give, in milliseconds
    runs,                     \* the test_hub requests that may arrive
    devices,                  \* USBMonitor._devices: port_path -> device
    authorized,               \* /sys/bus/usb/devices/<p>/authorized, per port
    faults,                   \* failing sysfs accesses so far
    pc,                       \* per test_hub run: where its coroutine stands
    target,                   \* per run: the port_path argument
    locals,                   \* per run: hubs_before, candidate_hubs, the for loop's
                              \* rest, candidate, same_device_hubs
    result,                   \* per run: the dict test_hub returned
    perm_seen,                \* per run: some write raised PermissionError
    observed,                 \* per run: <<candidate, target absent>> at each check of line 910
    learning_mode,            \* USBMonitor._learning_mode
    learning_disconnects,     \* USBMonitor._learning_disconnects
    learning_exclude_storage, \* USBMonitor._learning_exclude_storage
    detected,                 \* the detected_group the last stop request returned
    physical_groups,          \* AppConfig.physical_groups of the ConfigManager
    callbacks,                \* USBMonitor._callbacks: what each callback does, "ok" or "raises"
    delivered,                \* the events _emit_event handed to a callback
    attached,                 \* the ports the kernel has a device at
    queue,                    \* the udev notifications the listener has not polled yet
    polled,                   \* the notification the listener's loop holds
    scan,                     \* scan_devices on the request path: where it stands
    args,                     \* the argument of the pure function called
    called,                   \* the pure function called
    ret,                      \* its return value
    response,                 \* the status the last learning request returned
    running,                  \* USBMonitor._running
    workers,                  \* the executor threads start_monitoring started
    children,                 \* per port: USBDevice.children of the object the last scan built
    linked,                   \* the keys of the map whose entry is an object the scan built
    storage_devices           \* the storage_devices the last start request returned

vars == <<world, clock, runs, devices, authorized, faults, pc, target, locals, result,
          perm_seen, observed, learning_mode, learning_disconnects,
          learning_exclude_storage, detected, physical_groups, callbacks, delivered,
          attached, queue, polled, scan, args, called, ret, response, running, workers,
          children, linked, storage_devices>>

\* what no handler of the web application changes
envVars == <<world, clock, runs, callbacks, attached, queue, scan, args, called, ret>>

\* the objects of the last scan: only scan_devices and the listener change them
treeVars == <<children, linked>>

bisectVars == <<authorized, faults, pc, target, locals, result, perm_seen, observed>>

learnVars == <<learning_mode, learning_disconnects, learning_exclude_storage, detected,
               storage_devices>>

(***************************************************************************)
(* Bounds                                                                  *)
(***************************************************************************)
MaxFaults == 2
NumRuns == 2
MaxEvents == 3
MaxGroups == 3
MaxQueue == 2
MaxWorkers == 2

(***************************************************************************)
(* The host: one bus with a root hub, three hubs and a storage device      *)
(***************************************************************************)
None == "None"

Ports == {"usb1", "1-1", "1-1.1", "1-1.2", "1-2"}

Runs == 1..NumRuns

DeviceClassOf(p) == IF p = "1-2" THEN "storage" ELSE "hub"

\* sys_path of the udev device at port p, split at "/"
SysPath(p) ==
    CASE p = "usb1"  -> <<"sys", "devices", "pci0000:00", "0000:00:14.0", "usb1">>
      [] p = "1-1"   -> <<"sys", "devices", "pci0000:00", "0000:00:14.0", "usb1", "1-1">>
      [] p = "1-1.1" -> <<"sys", "devices", "pci0000:00", "0000:00:14.0", "usb1", "1-1", "1-1.1">>
      [] p = "1-1.2" -> <<"sys", "devices", "pci0000:00", "0000:00:14.0", "usb1", "1-1", "1-1.2">>
      [] p = "1-2"   -> <<"sys", "devices", "pci0000:00", "0000:00:14.0", "usb1", "1-2">>

HasDash(part) == part \in {"1-1", "1-1.1", "1-1.2", "1-2"}

StartsWithPci(part) == part = "pci0000:00"

\* lines 248-260: the scan of reversed(parts) for the port path, with the
\* root hub fallback; every port of the host is on bus 1, and HasDash tells
\* the parts that start with "1-"
RECURSIVE PortPathFrom(_, _)
PortPathFrom(parts, i) ==
    IF i = 0 THEN "usb1"
    ELSE IF HasDash(parts[i]) \/ parts[i] = "usb1" THEN parts[i]
    ELSE PortPathFrom(parts, i - 1)

\* build_usb_device: the USBDevice of the udev device at port p
BuildUsbDevice(p) ==
    [port_path |-> PortPathFrom(SysPath(p), Len(SysPath(p))),
     device_class |-> DeviceClassOf(p),
     is_root_hub |-> (SysPath(p)[Len(SysPath(p))] = "usb1")]

\* the map keyed by the bus of the device
DeviceKeyByBus(usb_dev) == "usb1"

\* lines 395 and 476: the key of a device in the map
DeviceKey(usb_dev) == usb_dev.port_path

\* self._devices[usb_dev.port_path] = usb_dev
Inserted(devs, usb_dev) ==
    [q \in DOMAIN devs \cup {DeviceKey(usb_dev)} |->
        IF q = DeviceKey(usb_dev) THEN usb_dev ELSE devs[q]]

\* the remove branch's scan of reversed(parts) for the port path
RECURSIVE RemovePortPathFrom(_, _)
RemovePortPathFrom(parts, i) ==
    IF i = 0 THEN None
    ELSE IF HasDash(parts[i]) /\ ~StartsWithPci(parts[i]) THEN parts[i]
    ELSE RemovePortPathFrom(parts, i - 1)

RemovePortPath(parts) == RemovePortPathFrom(parts, Len(parts))

(***************************************************************************)
(* test_hub                                                                *)
(***************************************************************************)
AwaitPcs == {"p1_settle", "p1_reconnect", "p2_settle", "p2_reconnect", "final_settle"}

InFlightPcs == AwaitPcs \cup {"checked", "p2_loop"}

\* asyncio runs a coroutine from one await to the next without switching
Scheduled(r) == \A q \in Runs \ {r} : pc[q] \notin {"checked", "p2_loop"}

\* target_before is not a local of the code: it records whether the target was
\* in the device map when the current candidate was de-authorized
NoLocals == [hubs_before |-> {}, candidate_hubs |-> {}, untested |-> {},
             candidate |-> None, same_device_hubs |-> {}, target_before |-> FALSE]

NoResult == [status |-> "none", message |-> "", members |-> {}]

ErrorResult(msg) == [status |-> "error", message |-> msg, members |-> {}]

SuccessResult(members) == [status |-> "success", message |-> "", members |-> members]

HubNotFound == ErrorResult("Hub not found")

NotAHub == ErrorResult("Not a hub device")

NoSysfs == ErrorResult("Cannot access hub (sysfs path not found)")

PermissionDenied == ErrorResult("Permission denied. Run with sudo.")

IOFailure == ErrorResult("OSError")

RaceFailure == ErrorResult("dictionary changed size during iteration")

NoHubs == ErrorResult("No hubs detected in group")

\* the set comprehension of hubs_before / hubs_after
NonRootHubs(devs) ==
    {p \in DOMAIN devs : devs[p].device_class = "hub" /\ ~devs[p].is_root_hub}

\* outcomes of one write_text on an authorized attribute
WriteOutcomes(f) == IF f < MaxFaults THEN {"ok", "perm", "io"} ELSE {"ok"}

Failures(o) == IF o = "ok" THEN 0 ELSE 1

\* the attribute after write_text(v) to port p with outcome o
Written(auth, p, v, o) == IF o = "ok" THEN [auth EXCEPT ![p] = v] ELSE auth

\* the guards without the device-class test
PrecheckAnyDevice(devs, p, exists) ==
    IF p \notin DOMAIN devs THEN HubNotFound
    ELSE IF ~exists THEN NoSysfs
    ELSE NoResult

\* the guards of lines 839-850, in the order of the code
Precheck(devs, p, exists) ==
    IF p \notin DOMAIN devs THEN HubNotFound
    ELSE IF devs[p].device_class # "hub" THEN NotAHub
    ELSE IF ~exists THEN NoSysfs
    ELSE NoResult

\* test_hub returns res: its locals are gone
Return(r, res) ==
    /\ pc' = [pc EXCEPT ![r] = "done"]
    /\ result' = [result EXCEPT ![r] = res]
    /\ locals' = [locals EXCEPT ![r] = NoLocals]

\* lines 838-850: resolve the hub and its authorization control
TestHubCheck(r, p, exists) ==
    /\ r \in runs
    /\ pc[r] = "idle"
    /\ Scheduled(r)
    /\ target' = [target EXCEPT ![r] = p]
    /\ IF Precheck(devices, p, exists) # NoResult
       THEN Return(r, Precheck(devices, p, exists))
       ELSE /\ pc' = [pc EXCEPT ![r] = "checked"]
            /\ UNCHANGED <<result, locals>>
    /\ UNCHANGED <<treeVars, envVars, running, workers, response, polled, delivered, devices,
                   authorized, faults, perm_seen, observed, learnVars, physical_groups>>

\* the handler of lines 881-888 after a failure that is not a PermissionError:
\* one more write of "1", its own failure swallowed
Phase1Recover(r, f, o2, res) ==
    /\ authorized' = Written(authorized, target[r], 1, o2)
    /\ faults' = f + Failures(o2)
    /\ perm_seen' = [perm_seen EXCEPT ![r] = @ \/ o2 = "perm"]
    /\ Return(r, res)

\* the handler of lines 879-880
Phase1Denied(r) ==
    /\ faults' = faults + 1
    /\ perm_seen' = [perm_seen EXCEPT ![r] = TRUE]
    /\ Return(r, PermissionDenied)
    /\ UNCHANGED authorized

\* lines 853-865: snapshot the hubs, write "0" to the target, sleep 0.4
TestHubDisable(r) ==
    /\ pc[r] = "checked"
    /\ \E o \in WriteOutcomes(faults) :
         CASE o = "ok" ->
                /\ authorized' = Written(authorized, target[r], 0, o)
                /\ pc' = [pc EXCEPT ![r] = "p1_settle"]
                /\ locals' = [locals EXCEPT ![r].hubs_before = NonRootHubs(devices)]
                /\ UNCHANGED <<faults, result, perm_seen>>
           [] o = "perm" -> Phase1Denied(r)
           [] o = "io" ->
                \E o2 \in WriteOutcomes(faults + 1) :
                    Phase1Recover(r, faults + 1, o2, IOFailure)
    /\ UNCHANGED <<treeVars, envVars, running, workers, response, polled, delivered, devices,
                   target, observed, learnVars, physical_groups>>

\* lines 867-877: snapshot again, candidates, write "1" to the target, sleep 0.8;
\* the listener thread changing _devices under the comprehension raises RuntimeError
TestHubObserve(r) ==
    /\ pc[r] = "p1_settle"
    /\ Scheduled(r)
    /\ \/ \E o \in WriteOutcomes(faults) :
            CASE o = "ok" ->
                   /\ authorized' = Written(authorized, target[r], 1, o)
                   /\ pc' = [pc EXCEPT ![r] = "p1_reconnect"]
                   /\ locals' = [locals EXCEPT
                         ![r].candidate_hubs = locals[r].hubs_before \ NonRootHubs(devices),
                         ![r].hubs_before = {}]
                   /\ UNCHANGED <<faults, result, perm_seen>>
              [] o = "perm" -> Phase1Denied(r)
              [] o = "io" ->
                   \E o2 \in WriteOutcomes(faults + 1) :
                       Phase1Recover(r, faults + 1, o2, IOFailure)
       \/ /\ faults < MaxFaults
          /\ \E o2 \in WriteOutcomes(faults + 1) :
               Phase1Recover(r, faults + 1, o2, RaceFailure)
    /\ UNCHANGED <<treeVars, envVars, running, workers, response, polled, delivered, devices,
                   target, observed, learnVars, physical_groups>>

\* Phase 2 starting from an empty confirmed set
TestHubPhase2Empty(r) ==
    /\ pc[r] = "p1_reconnect"
    /\ Scheduled(r)
    /\ locals' = [locals EXCEPT ![r].same_device_hubs = {},
                                ![r].untested = locals[r].candidate_hubs]
    /\ pc' = [pc EXCEPT ![r] = "p2_loop"]
    /\ UNCHANGED <<treeVars, envVars, running, workers, response, polled, delivered, devices,
                   authorized, faults, target, result, perm_seen, observed, learnVars,
                   physical_groups>>

\* line 893, reached when the sleep of line 877 ends
TestHubPhase2(r) ==
    /\ pc[r] = "p1_reconnect"
    /\ Scheduled(r)
    /\ locals' = [locals EXCEPT ![r].same_device_hubs = {target[r]},
                                ![r].untested = locals[r].candidate_hubs]
    /\ pc' = [pc EXCEPT ![r] = "p2_loop"]
    /\ UNCHANGED <<treeVars, envVars, running, workers, response, polled, delivered, devices,
                   authorized, faults, target, result, perm_seen, observed, learnVars,
                   physical_groups>>

\* the handler of lines 924-930 after the failure o: one more write of "1" to
\* the candidate, its own failure swallowed, and on to the next candidate
Phase2Recover(r, c, o, o2) ==
    /\ authorized' = Written(authorized, c, 1, o2)
    /\ faults' = faults + 1 + Failures(o2)
    /\ perm_seen' = [perm_seen EXCEPT ![r] = @ \/ o = "perm" \/ o2 = "perm"]
    /\ pc' = [pc EXCEPT ![r] = "p2_loop"]

\* lines 895-907: next candidate of the set, write "0" to it, sleep 0.3;
\* lines 932-939 when the loop is over
TestHubNextCandidate(r) ==
    /\ pc[r] = "p2_loop"
    /\ IF locals[r].untested = {}
       THEN /\ pc' = [pc EXCEPT ![r] = "final_settle"]
            /\ locals' = [locals EXCEPT ![r].candidate = None, ![r].target_before = FALSE]
            /\ UNCHANGED <<authorized, faults, perm_seen>>
       ELSE \E c \in locals[r].untested, exists \in BOOLEAN :
              /\ locals' = [locals EXCEPT ![r].untested = @ \ {c}, ![r].candidate = c,
                                          ![r].target_before = target[r] \in DOMAIN devices]
              /\ IF ~exists
                 THEN UNCHANGED <<authorized, faults, pc, perm_seen>>
                 ELSE \E o \in WriteOutcomes(faults) :
                        IF o = "ok"
                        THEN /\ authorized' = Written(authorized, c, 0, o)
                             /\ pc' = [pc EXCEPT ![r] = "p2_settle"]
                             /\ UNCHANGED <<faults, perm_seen>>
                        ELSE \E o2 \in WriteOutcomes(faults + 1) :
                                 Phase2Recover(r, c, o, o2)
    /\ UNCHANGED <<treeVars, envVars, running, workers, response, polled, delivered, devices,
                   target, result, observed, learnVars, physical_groups>>

\* line 910
TargetStillExists(devs, t) == t \in DOMAIN devs

\* the test of line 912 inverted: a candidate joins while the target is present
ConfirmDownstream(same, c, devs, t) ==
    IF TargetStillExists(devs, t) THEN same \cup {c} ELSE same

\* lines 912-918: the confirmed set after the check of candidate c
Confirm(same, c, devs, t) == IF ~TargetStillExists(devs, t) THEN same \cup {c} ELSE same

\* lines 909-922: check the target, write "1" to the candidate, sleep 0.5
TestHubCheckCandidate(r) ==
    /\ pc[r] = "p2_settle"
    /\ Scheduled(r)
    /\ locals' = [locals EXCEPT ![r].same_device_hubs =
                                    Confirm(@, locals[r].candidate, devices, target[r]),
                                ![r].target_before = FALSE]
    /\ observed' = [observed EXCEPT
                      ![r] = @ \cup {<<locals[r].candidate, target[r] \notin DOMAIN devices>>}]
    /\ \E o \in WriteOutcomes(faults) :
         IF o = "ok"
         THEN /\ authorized' = Written(authorized, locals[r].candidate, 1, o)
              /\ pc' = [pc EXCEPT ![r] = "p2_reconnect"]
              /\ UNCHANGED <<faults, perm_seen>>
         ELSE \E o2 \in WriteOutcomes(faults + 1) :
                  Phase2Recover(r, locals[r].candidate, o, o2)
    /\ UNCHANGED <<treeVars, envVars, running, workers, response, polled, delivered, devices,
                   target, result, learnVars, physical_groups>>

\* a loop that puts the candidate back while the target is absent from the map
TestHubCandidateDoneRetry(r) ==
    /\ pc[r] = "p2_reconnect"
    /\ Scheduled(r)
    /\ pc' = [pc EXCEPT ![r] = "p2_loop"]
    /\ locals' = [locals EXCEPT ![r].untested =
                     IF target[r] \in DOMAIN devices THEN @ ELSE @ \cup {locals[r].candidate}]
    /\ UNCHANGED <<treeVars, envVars, running, workers, response, polled, delivered, devices,
                   authorized, faults, target, result, perm_seen, observed, learnVars,
                   physical_groups>>

\* the sleep of line 922 ends: back to the for loop
TestHubCandidateDone(r) ==
    /\ pc[r] = "p2_reconnect"
    /\ Scheduled(r)
    /\ pc' = [pc EXCEPT ![r] = "p2_loop"]
    /\ UNCHANGED <<treeVars, envVars, running, workers, response, polled, delivered, devices,
                   authorized, faults, target, locals, result, perm_seen, observed, learnVars,
                   physical_groups>>

\* lines 958-968: the result built from same_device_hubs
BuildResult(same) == IF same = {} THEN NoHubs ELSE SuccessResult(same)

\* lines 941-968, reached when the sleep of line 939 ends
TestHubFinish(r) ==
    /\ pc[r] = "final_settle"
    /\ Scheduled(r)
    /\ Return(r, BuildResult(locals[r].same_device_hubs))
    /\ UNCHANGED <<treeVars, envVars, running, workers, response, polled, delivered, devices,
                   authorized, faults, target, perm_seen, observed, learnVars, physical_groups>>

\* the task running test_hub is cancelled while it awaits asyncio.sleep:
\* CancelledError is a BaseException, which no handler of test_hub catches
TestHubCancel(r) ==
    /\ pc[r] \in AwaitPcs
    /\ Scheduled(r)
    /\ pc' = [pc EXCEPT ![r] = "cancelled"]
    /\ locals' = [locals EXCEPT ![r] = NoLocals]
    /\ UNCHANGED <<treeVars, envVars, running, workers, response, polled, delivered, devices,
                   authorized, faults, target, result, perm_seen, observed, learnVars,
                   physical_groups>>

(***************************************************************************)
(* The listener thread, _monitor_loop                                      *)
(***************************************************************************)
\* time.time() at line 497, in milliseconds: wall-clock readings
Times == {0, 100, 120}

\* the clock is read only in learning mode
Clock == IF learning_mode THEN clock ELSE {0}

\* no device
NoDevice == [port_path |-> None, device_class |-> None, is_root_hub |-> FALSE]

\* the USBEvents of the monitor; time stamps and learning_data other than
\* in_learning_mode are left out
USBEvent(type, port_path, device, learning) ==
    [type |-> type, port_path |-> port_path, device |-> device, in_learning_mode |-> learning]

DeviceRemoved(p, removed_device, learning) ==
    USBEvent("device_removed", p, removed_device, learning)

\* the handler that ran last handed no event to the callbacks
NoEvent == << >>

\* the loop of _emit_event left by the first exception of a callback
EmitUntilRaise(event) ==
    LET raising == {i \in 1..Len(callbacks) : callbacks[i] = "raises"}
        last == IF raising = {} THEN Len(callbacks)
                ELSE CHOOSE i \in raising : \A j \in raising : i <= j
    IN  [i \in 1..last |-> event]

\* _emit_event: the callbacks are called with the event in the order of the
\* list, an exception of one is logged and the loop goes on; the i-th element
\* is what the i-th callback was called with
EmitEvent(event) == [i \in 1..Len(callbacks) |-> event]

\* the add branch without the event of lines 477-478
ApplyAddSilent(p, numbered) ==
    /\ devices' = IF numbered THEN Inserted(devices, BuildUsbDevice(p)) ELSE devices
    /\ linked' = IF numbered THEN linked \ {DeviceKey(BuildUsbDevice(p))} ELSE linked
    /\ delivered' = NoEvent
    /\ UNCHANGED <<learning_disconnects, children>>

\* lines 473-479: the add branch for the udev device at port p, which has its
\* bus and device numbers or not; the object put into the map is new, with no
\* children, and no parent's children list is touched
ApplyAdd(p, numbered) ==
    IF numbered
    THEN /\ devices' = Inserted(devices, BuildUsbDevice(p))
         /\ linked' = linked \ {DeviceKey(BuildUsbDevice(p))}
         /\ delivered' = EmitEvent(USBEvent("device_added", None, BuildUsbDevice(p), FALSE))
         /\ UNCHANGED <<learning_disconnects, children>>
    ELSE /\ delivered' = NoEvent
         /\ UNCHANGED <<devices, learning_disconnects, treeVars>>

\* the remove branch without the test of line 492: pop(port_path, None) and an
\* event for whatever was found
ApplyRemoveUnchecked(parts, ts) ==
    LET port_path == RemovePortPath(parts) IN
    /\ devices' = [q \in DOMAIN devices \ {port_path} |-> devices[q]]
    /\ linked' = linked \ {port_path}
    /\ UNCHANGED children
    /\ delivered' = EmitEvent(DeviceRemoved(port_path, NoDevice, learning_mode))
    /\ IF learning_mode /\ port_path \in DOMAIN devices
       THEN /\ Len(learning_disconnects) < MaxEvents
            /\ learning_disconnects' =
                 Append(learning_disconnects,
                        [timestamp |-> ts, port_path |-> port_path,
                         device |-> devices[port_path]])
       ELSE UNCHANGED learning_disconnects

\* the remove branch without the test of line 496: every removal is tracked
ApplyRemoveAlwaysTracked(parts, ts) ==
    LET port_path == RemovePortPath(parts) IN
    IF port_path # None /\ port_path \in DOMAIN devices
    THEN /\ devices' = [q \in DOMAIN devices \ {port_path} |-> devices[q]]
         /\ linked' = linked \ {port_path}
         /\ UNCHANGED children
         /\ Len(learning_disconnects) < MaxEvents
         /\ learning_disconnects' =
              Append(learning_disconnects,
                     [timestamp |-> ts, port_path |-> port_path,
                      device |-> devices[port_path]])
         /\ delivered' = EmitEvent(DeviceRemoved(port_path, devices[port_path], learning_mode))
    ELSE /\ delivered' = NoEvent
         /\ UNCHANGED <<devices, learning_disconnects, treeVars>>

\* lines 481-511: the remove branch for the udev device whose sys_path splits
\* into parts, the clock reading ts
ApplyRemove(parts, ts) ==
    LET port_path == RemovePortPath(parts) IN
    IF port_path # None /\ port_path \in DOMAIN devices
    THEN /\ devices' = [q \in DOMAIN devices \ {port_path} |-> devices[q]]
         /\ linked' = linked \ {port_path}
         /\ UNCHANGED children
         /\ IF learning_mode
            THEN /\ Len(learning_disconnects) < MaxEvents
                 /\ learning_disconnects' =
                      Append(learning_disconnects,
                             [timestamp |-> ts, port_path |-> port_path,
                              device |-> devices[port_path]])
            ELSE UNCHANGED learning_disconnects
         /\ delivered' = EmitEvent(DeviceRemoved(port_path, devices[port_path], learning_mode))
    ELSE /\ delivered' = NoEvent
         /\ UNCHANGED <<devices, learning_disconnects, treeVars>>

\* an add notification for port p arrives and is handled
MonitorAdd(p) ==
    /\ p \in world
    /\ ApplyAdd(p, TRUE)
    /\ UNCHANGED <<envVars, running, workers, response, polled, bisectVars, learning_mode,
                   learning_exclude_storage, detected, storage_devices, physical_groups>>

\* a remove notification for the device at port p arrives and is handled
MonitorRemove(p, ts) ==
    /\ p \in world
    /\ RemovePortPath(SysPath(p)) \in DOMAIN devices
    /\ ApplyRemove(SysPath(p), ts)
    /\ UNCHANGED <<envVars, running, workers, response, polled, bisectVars, learning_mode,
                   learning_exclude_storage, detected, storage_devices, physical_groups>>

(***************************************************************************)
(* _build_tree                                                             *)
(***************************************************************************)
\* the port paths of two buses
TreePorts == Ports \cup {"usb2", "2-1"}

\* the characters of a port path
PathChars(p) ==
    CASE p = "usb1"  -> <<"u", "s", "b", "1">>
      [] p = "usb2"  -> <<"u", "s", "b", "2">>
      [] p = "1-1"   -> <<"1", "-", "1">>
      [] p = "1-2"   -> <<"1", "-", "2">>
      [] p = "2-1"   -> <<"2", "-", "1">>
      [] p = "1-1.1" -> <<"1", "-", "1", ".", "1">>
      [] p = "1-1.2" -> <<"1", "-", "1", ".", "2">>

\* s.startswith(prefix)
StartsWith(chars, prefix) ==
    Len(chars) >= Len(prefix) /\ SubSeq(chars, 1, Len(prefix)) = prefix

\* c in s
Contains(chars, c) == \E i \in 1..Len(chars) : chars[i] = c

\* s.rsplit(c, 1)[0] of a string that holds c
RSplitHead(chars, c) ==
    SubSeq(chars, 1, (CHOOSE i \in 1..Len(chars) :
                         chars[i] = c /\ \A j \in (i + 1)..Len(chars) : chars[j] # c) - 1)

\* s.split(c)[0] of a string that holds c
SplitHead(chars, c) ==
    SubSeq(chars, 1, (CHOOSE i \in 1..Len(chars) :
                         chars[i] = c /\ \A j \in 1..(i - 1) : chars[j] # c) - 1)

\* the test of line 412 without the flag
IsRootByPathOnly(device) == StartsWith(PathChars(device.port_path), <<"u", "s", "b">>)

\* line 412
IsRoot(device) ==
    device.is_root_hub \/ StartsWith(PathChars(device.port_path), <<"u", "s", "b">>)

\* the parent taken to be the root hub of the bus at any depth
ParentPathAlwaysRoot(port_path) ==
    IF Contains(port_path, "-") THEN <<"u", "s", "b">> \o SplitHead(port_path, "-")
    ELSE None

\* lines 418-427: the parent path, None when the path has neither "." nor "-"
ParentPath(port_path) ==
    IF Contains(port_path, ".") THEN RSplitHead(port_path, ".")
    ELSE IF Contains(port_path, "-") THEN <<"u", "s", "b">> \o SplitHead(port_path, "-")
    ELSE None

\* list.sort(key=len(port_path)) is stable
RECURSIVE InsertByLength(_, _)
InsertByLength(sorted, d) ==
    IF sorted = << >> THEN <<d>>
    ELSE IF Len(PathChars(d.port_path)) < Len(PathChars(Head(sorted).port_path))
         THEN <<d>> \o sorted
         ELSE <<Head(sorted)>> \o InsertByLength(Tail(sorted), d)

RECURSIVE SortByLength(_)
SortByLength(list) ==
    IF list = << >> THEN << >>
    ELSE InsertByLength(SortByLength(SubSeq(list, 1, Len(list) - 1)), list[Len(list)])

\* path_map.get(parent_path): the port path of the device found, or None
PathMapGet(list, parent_path) ==
    IF parent_path # None /\ \E i \in 1..Len(list) : PathChars(list[i].port_path) = parent_path
    THEN list[CHOOSE i \in 1..Len(list) :
                 /\ PathChars(list[i].port_path) = parent_path
                 /\ \A j \in (i + 1)..Len(list) :
                        PathChars(list[j].port_path) # parent_path].port_path
    ELSE None

\* roots, and the children and parent_path fields of the devices, before the loop
EmptyTree ==
    [roots |-> << >>, children |-> [p \in TreePorts |-> << >>],
     parent_path |-> [p \in TreePorts |-> None]]

\* the device without a parent in path_map left out of the forest
DropOrphan(tree, device) == tree

\* lines 433-435: path_map holds no device at the parent path
PlaceOrphan(tree, device) == [tree EXCEPT !.roots = Append(@, device.port_path)]

\* lines 411-435: the loop over the sorted devices, at device i
RECURSIVE BuildTreeFrom(_, _, _)
BuildTreeFrom(list, i, tree) ==
    IF i > Len(list) THEN tree
    ELSE LET device == list[i]
             parent_path == ParentPath(PathChars(device.port_path))
             parent == PathMapGet(list, parent_path)
         IN  IF IsRoot(device) \/ parent_path = None
             THEN BuildTreeFrom(list, i + 1,
                                [tree EXCEPT !.roots = Append(@, device.port_path)])
             ELSE IF parent = None
             THEN BuildTreeFrom(list, i + 1, PlaceOrphan(tree, device))
             ELSE BuildTreeFrom(list, i + 1,
                                [tree EXCEPT !.parent_path[device.port_path] = parent,
                                             !.children[parent] = Append(@, device.port_path)])

\* USBMonitor._build_tree
BuildTree(list) == BuildTreeFrom(SortByLength(list), 1, EmptyTree)

(***************************************************************************)
(* The kernel's notifications and scan_devices on the request path         *)
(***************************************************************************)
\* a udev device of the monitor: its action, its port and whether it has
\* the properties BUSNUM and DEVNUM
Notification(action, p) == [action |-> action, port |-> p, numbered |-> TRUE]

\* a device is plugged in at port p: udev queues an add notification
KernelAttach(p) ==
    /\ p \in world \ attached
    /\ Len(queue) < MaxQueue
    /\ attached' = attached \cup {p}
    /\ \/ queue' = Append(queue, Notification("add", p))
       \/ queue' = Append(queue, [Notification("add", p) EXCEPT !.numbered = FALSE])
    /\ UNCHANGED <<treeVars, world, clock, runs, callbacks, running, workers, response, polled,
                   scan, args, called, ret, devices, delivered, bisectVars, learnVars,
                   physical_groups>>

\* the device at port p is unplugged: udev queues a remove notification
KernelDetach(p) ==
    /\ p \in attached
    /\ Len(queue) < MaxQueue
    /\ attached' = attached \ {p}
    /\ queue' = Append(queue, Notification("remove", p))
    /\ UNCHANGED <<treeVars, world, clock, runs, callbacks, running, workers, response, polled,
                   scan, args, called, ret, devices, delivered, bisectVars, learnVars,
                   physical_groups>>

\* lines 467-511: one turn of the for loop over monitor.poll
MonitorPoll ==
    /\ queue # << >>
    /\ polled' = Head(queue)
    /\ queue' = Tail(queue)
    /\ IF Head(queue).action = "add"
       THEN ApplyAdd(Head(queue).port, Head(queue).numbered)
       ELSE \E ts \in Clock : ApplyRemove(SysPath(Head(queue).port), ts)
    /\ UNCHANGED <<world, clock, runs, callbacks, running, workers, response, attached, scan,
                   args, called, ret, bisectVars, learning_mode, learning_exclude_storage,
                   detected, storage_devices, physical_groups>>

\* the order in which the udev enumeration lists the devices
PortOrder == <<"usb1", "1-1", "1-1.1", "1-1.2", "1-2">>

FirstListed(todo) ==
    PortOrder[CHOOSE i \in 1..Len(PortOrder) :
                 /\ PortOrder[i] \in todo
                 /\ \A j \in 1..(i - 1) : PortOrder[j] \notin todo]

\* scan_devices is not running
NoScan == [pc |-> "idle", before |-> {}, todo |-> {}, usb_dev |-> None, devices_flat |-> << >>]

\* lines 388-392: the map is cleared and the enumeration lists the devices
\* attached now; before is the key set of the map the scan found
ScanBegin ==
    /\ scan.pc = "idle"
    /\ devices' = << >>
    /\ linked' = {}
    /\ children' = EmptyTree.children
    /\ scan' = [pc |-> "listing", before |-> DOMAIN devices, todo |-> attached,
                usb_dev |-> None, devices_flat |-> << >>]
    /\ UNCHANGED <<world, clock, runs, callbacks, running, workers, response, attached, queue,
                   polled, args, called, ret, delivered, bisectVars, learnVars,
                   physical_groups>>

\* lines 392-394: the next listed device, skipped by the enumeration when it is
\* gone, else built
ScanBuild ==
    /\ scan.pc = "listing"
    /\ scan.todo # {}
    /\ LET p == FirstListed(scan.todo) IN
       scan' = IF p \in attached
               THEN [scan EXCEPT !.pc = "built", !.todo = @ \ {p}, !.usb_dev = p]
               ELSE [scan EXCEPT !.todo = @ \ {p}]
    /\ UNCHANGED <<treeVars, world, clock, runs, callbacks, running, workers, response,
                   attached, queue, polled, args, called, ret, devices, delivered, bisectVars,
                   learnVars, physical_groups>>

\* lines 395-396: the device built goes into the map and into devices_flat
ScanInsert ==
    /\ scan.pc = "built"
    /\ devices' = Inserted(devices, BuildUsbDevice(scan.usb_dev))
    /\ linked' = linked \cup {DeviceKey(BuildUsbDevice(scan.usb_dev))}
    /\ UNCHANGED children
    /\ scan' = [scan EXCEPT !.pc = "listing", !.usb_dev = None,
                             !.devices_flat = Append(@, DeviceKey(BuildUsbDevice(scan.usb_dev)))]
    /\ UNCHANGED <<world, clock, runs, callbacks, running, workers, response, attached, queue,
                   polled, args, called, ret, delivered, bisectVars, learnVars,
                   physical_groups>>

\* lines 399-401: the enumeration is over, the tree is built and returned;
\* _build_tree appends to the children of the objects in devices_flat
ScanEnd ==
    /\ scan.pc = "listing"
    /\ scan.todo = {}
    /\ children' = BuildTree([i \in 1..Len(scan.devices_flat) |->
                                 [port_path |-> scan.devices_flat[i],
                                  is_root_hub |->
                                      BuildUsbDevice(scan.devices_flat[i]).is_root_hub]]).children
    /\ UNCHANGED linked
    /\ scan' = NoScan
    /\ UNCHANGED <<world, clock, runs, callbacks, running, workers, response, attached, queue,
                   polled, args, called, ret, devices, delivered, bisectVars, learnVars,
                   physical_groups>>

(***************************************************************************)
(* The readers of the tree on the request path                             *)
(***************************************************************************)
\* self._devices.values(): the entries of the map, each marked as such; the
\* order of the dict is taken to be the order of the enumeration
MapValues ==
    LET keys == SelectSeq(PortOrder, LAMBDA p : p \in DOMAIN devices)
    IN  [i \in 1..Len(keys) |-> [port_path |-> keys[i], entry |-> TRUE]]

\* device.children: the list _build_tree filled for an object of the scan,
\* empty for an object the listener put into the map
ChildrenOf(device) ==
    IF device.entry /\ device.port_path \notin linked THEN << >>
    ELSE [i \in 1..Len(children[device.port_path]) |->
             [port_path |-> children[device.port_path][i], entry |-> FALSE]]

\* lines 528-532: check_device on the devices of todo and on their children,
\* depth first; the port paths of the devices appended to storage_devices
RECURSIVE CheckDevice(_)
CheckDevice(todo) ==
    IF todo = << >> THEN << >>
    ELSE (IF BuildUsbDevice(Head(todo).port_path).device_class = "storage"
          THEN <<Head(todo).port_path>> ELSE << >>)
         \o CheckDevice(ChildrenOf(Head(todo)) \o Tail(todo))

\* has_storage_devices() without a port path, lines 534-542
HasStorageDevices == CheckDevice(MapValues)

\* lines 757-774: collect_hubs on the devices of todo and on their children
RECURSIVE CollectHubs(_)
CollectHubs(todo) ==
    IF todo = << >> THEN << >>
    ELSE LET device == BuildUsbDevice(Head(todo).port_path) IN
         (IF ~device.is_root_hub /\ device.device_class = "hub"
          THEN <<Head(todo).port_path>> ELSE << >>)
         \o CollectHubs(ChildrenOf(Head(todo)) \o Tail(todo))

\* get_testable_hubs, lines 776-779: collect_hubs is started from the entries
\* without a parent_path and from the root hubs; build_usb_device gives a
\* parent_path to every device that is no root hub and has "-" in its port path
TestableHubs ==
    CollectHubs(SelectSeq(MapValues,
                          LAMBDA d : \/ BuildUsbDevice(d.port_path).is_root_hub
                                     \/ ~HasDash(d.port_path)))

(***************************************************************************)
(* start_monitoring, stop_monitoring and the threads that run              *)
(* _monitor_loop, each polling the netlink socket of its own udev monitor  *)
(***************************************************************************)
\* a thread of the executor at the poll of line 467 or between the test of
\* line 496 and the append of line 498, with the notifications its socket holds
Worker(alive, socket, at, port_path, removed_device) ==
    [alive |-> alive, socket |-> socket, pc |-> at, port_path |-> port_path,
     removed_device |-> removed_device]

Alive == {w \in 1..Len(workers) : workers[w].alive}

\* USBMonitor.start_monitoring: nothing when running, else a new monitor and
\* _monitor_loop in a thread of the executor
StartMonitoring ==
    /\ ~running
    /\ Len(workers) < MaxWorkers
    /\ running' = TRUE
    /\ workers' = Append(workers, Worker(TRUE, << >>, "poll", None, NoDevice))
    /\ UNCHANGED <<treeVars, world, clock, runs, callbacks, response, attached, queue, polled,
                   scan, args, called, ret, devices, delivered, bisectVars, learnVars,
                   physical_groups>>

\* USBMonitor.stop_monitoring
StopMonitoring ==
    /\ running
    /\ running' = FALSE
    /\ UNCHANGED <<treeVars, world, clock, runs, callbacks, response, workers, attached, queue,
                   polled, scan, args, called, ret, devices, delivered, bisectVars, learnVars,
                   physical_groups>>

\* the notification reaches the socket of every monitor a live thread polls
Broadcast(notification) ==
    [w \in 1..Len(workers) |->
        IF workers[w].alive
        THEN [workers[w] EXCEPT !.socket = Append(@, notification)]
        ELSE workers[w]]

\* a device is plugged in at port p
SocketAttach(p) ==
    /\ p \in world \ attached
    /\ \A w \in Alive : Len(workers[w].socket) < MaxQueue
    /\ attached' = attached \cup {p}
    /\ workers' = Broadcast(Notification("add", p))
    /\ UNCHANGED <<treeVars, world, clock, runs, callbacks, response, running, queue, polled,
                   scan, args, called, ret, devices, delivered, bisectVars, learnVars,
                   physical_groups>>

\* the device at port p is unplugged
SocketDetach(p) ==
    /\ p \in attached
    /\ \A w \in Alive : Len(workers[w].socket) < MaxQueue
    /\ attached' = attached \ {p}
    /\ workers' = Broadcast(Notification("remove", p))
    /\ UNCHANGED <<treeVars, world, clock, runs, callbacks, response, running, queue, polled,
                   scan, args, called, ret, devices, delivered, bisectVars, learnVars,
                   physical_groups>>

\* lines 481-496 in the thread w: the port path is looked up and popped, and
\* the flag of the learning session is tested
WorkerRemove(w, parts) ==
    LET port_path == RemovePortPath(parts) IN
    IF port_path # None /\ port_path \in DOMAIN devices
    THEN /\ devices' = [q \in DOMAIN devices \ {port_path} |-> devices[q]]
         /\ linked' = linked \ {port_path}
         /\ UNCHANGED children
         /\ IF learning_mode
            THEN /\ workers' = [workers EXCEPT ![w] =
                                  Worker(TRUE, Tail(workers[w].socket), "track", port_path,
                                         devices[port_path])]
                 /\ delivered' = NoEvent
            ELSE /\ workers' = [workers EXCEPT ![w].socket = Tail(@)]
                 /\ delivered' = EmitEvent(DeviceRemoved(port_path, devices[port_path], FALSE))
    ELSE /\ workers' = [workers EXCEPT ![w].socket = Tail(@)]
         /\ delivered' = NoEvent
         /\ UNCHANGED <<devices, treeVars>>

\* lines 467-496 in the thread w: monitor.poll blocks until the socket holds
\* a notification, whatever _running is, and returns it; the loop ends when
\* the monitor was stopped, else the notification is applied
WorkerPoll(w) ==
    /\ w \in 1..Len(workers)
    /\ workers[w].alive
    /\ workers[w].pc = "poll"
    /\ workers[w].socket # << >>
    /\ IF ~running
       THEN /\ workers' = [workers EXCEPT ![w] = Worker(FALSE, << >>, "poll", None, NoDevice)]
            /\ UNCHANGED <<devices, delivered, learning_disconnects, treeVars>>
       ELSE IF Head(workers[w].socket).action = "add"
            THEN /\ ApplyAdd(Head(workers[w].socket).port, Head(workers[w].socket).numbered)
                 /\ workers' = [workers EXCEPT ![w].socket = Tail(@)]
            ELSE /\ WorkerRemove(w, SysPath(Head(workers[w].socket).port))
                 /\ UNCHANGED learning_disconnects
    /\ UNCHANGED <<world, clock, runs, callbacks, response, running, attached, queue, polled,
                   scan, args, called, ret, bisectVars, learning_mode, learning_exclude_storage,
                   detected, storage_devices, physical_groups>>

\* lines 497-511 in the thread w: the clock is read, the disconnect is
\* appended to the buffer and the event, with the flag read again, is emitted
WorkerTrack(w, ts) ==
    /\ w \in 1..Len(workers)
    /\ workers[w].alive
    /\ workers[w].pc = "track"
    /\ Len(learning_disconnects) < MaxEvents
    /\ learning_disconnects' =
         Append(learning_disconnects,
                [timestamp |-> ts, port_path |-> workers[w].port_path,
                 device |-> workers[w].removed_device])
    /\ delivered' = EmitEvent(DeviceRemoved(workers[w].port_path, workers[w].removed_device,
                                            learning_mode))
    /\ workers' = [workers EXCEPT ![w] = Worker(TRUE, workers[w].socket, "poll", None, NoDevice)]
    /\ UNCHANGED <<treeVars, world, clock, runs, callbacks, response, running, attached, queue,
                   polled, scan, args, called, ret, devices, bisectVars, learning_mode,
                   learning_exclude_storage, detected, storage_devices, physical_groups>>

(***************************************************************************)
(* ConfigManager: the saved physical groups                                *)
(***************************************************************************)
GroupNames == {"g1", "g2"}

Labels == {None, "rack"}

\* PhysicalGroup(name, members, label); members holds the elements of the
\* list, whose order and repetitions no code reads
PhysicalGroup(name, members, label) == [name |-> name, members |-> members, label |-> label]

\* list.remove(x): drop the first element equal to x
RECURSIVE ListRemove(_, _)
ListRemove(list, x) ==
    IF list = << >> THEN << >>
    ELSE IF Head(list) = x THEN Tail(list)
    ELSE <<Head(list)>> \o ListRemove(Tail(list), x)

\* lines 198-205: the for loop over self._config.physical_groups, at index i of
\* the list it is removing from
RECURSIVE RemoveOverlap(_, _, _)
RemoveOverlap(groups, members, i) ==
    IF i > Len(groups) THEN groups
    ELSE LET group == groups[i]
             overlap == group.members \cap members
             kept == [group EXCEPT !.members = group.members \ overlap]
             updated == [groups EXCEPT ![i] = kept]
         IN  IF overlap = {} THEN RemoveOverlap(groups, members, i + 1)
             ELSE IF kept.members = {}
                  THEN RemoveOverlap(ListRemove(updated, kept), members, i + 1)
                  ELSE RemoveOverlap(updated, members, i + 1)

\* ConfigManager.add_physical_group
AddedGroup(groups, name, members, label) ==
    Append(RemoveOverlap(groups, members, 1), PhysicalGroup(name, members, label))

\* ConfigManager.update_physical_group: the first group named old_name
RECURSIVE UpdatedGroup(_, _, _, _)
UpdatedGroup(groups, old_name, name, label) ==
    IF groups = << >> THEN << >>
    ELSE IF Head(groups).name = old_name
         THEN <<[Head(groups) EXCEPT !.name = name, !.label = label]>> \o Tail(groups)
         ELSE <<Head(groups)>> \o UpdatedGroup(Tail(groups), old_name, name, label)

\* ConfigManager.remove_physical_group: the first group named name
RECURSIVE RemovedGroup(_, _)
RemovedGroup(groups, name) ==
    IF groups = << >> THEN << >>
    ELSE IF Head(groups).name = name THEN Tail(groups)
    ELSE <<Head(groups)>> \o RemovedGroup(Tail(groups), name)

\* POST /api/physical-groups
AddPhysicalGroup(name, members, label) ==
    /\ members # {}
    /\ Len(physical_groups) < MaxGroups
    /\ physical_groups' = AddedGroup(physical_groups, name, members, label)
    /\ UNCHANGED <<treeVars, envVars, running, workers, response, polled, delivered, devices,
                   bisectVars, learnVars>>

\* PUT /api/physical-groups/{name}
UpdatePhysicalGroup(old_name, name, label) ==
    /\ physical_groups' = UpdatedGroup(physical_groups, old_name, name, label)
    /\ UNCHANGED <<treeVars, envVars, running, workers, response, polled, delivered, devices,
                   bisectVars, learnVars>>

\* DELETE /api/physical-groups/{name}
RemovePhysicalGroup(name) ==
    /\ physical_groups' = RemovedGroup(physical_groups, name)
    /\ UNCHANGED <<treeVars, envVars, running, workers, response, polled, delivered, devices,
                   bisectVars, learnVars>>

(***************************************************************************)
(* Learning sessions                                                       *)
(***************************************************************************)
LEARNING_WINDOW_MS == 100

\* USBMonitor._get_existing_group_members
ExistingGroupMembers(groups) == UNION {groups[i].members : i \in 1..Len(groups)}

\* list.sort(key=timestamp) is stable: e goes behind the events not later than it
RECURSIVE Insert(_, _)
Insert(sorted, e) ==
    IF sorted = << >> THEN <<e>>
    ELSE IF e.timestamp < Head(sorted).timestamp THEN <<e>> \o sorted
    ELSE <<Head(sorted)>> \o Insert(Tail(sorted), e)

RECURSIVE SortByTimestamp(_)
SortByTimestamp(events) ==
    IF events = << >> THEN << >>
    ELSE Insert(SortByTimestamp(SubSeq(events, 1, Len(events) - 1)), events[Len(events)])

\* line 683; timestamps are kept here in milliseconds
WithinWindow(timestamp, first) == timestamp - first <= LEARNING_WINDOW_MS

\* the loop with a sliding window: the gap to the event before, not to the
\* first event of the group
RECURSIVE GroupEventsSliding(_, _, _, _)
GroupEventsSliding(events, i, groups, current_group) ==
    IF i > Len(events)
    THEN IF current_group # << >> THEN Append(groups, current_group) ELSE groups
    ELSE IF current_group = << >>
         THEN GroupEventsSliding(events, i + 1, groups, <<events[i]>>)
         ELSE IF WithinWindow(events[i].timestamp,
                              current_group[Len(current_group)].timestamp)
              THEN GroupEventsSliding(events, i + 1, groups,
                                      Append(current_group, events[i]))
              ELSE GroupEventsSliding(events, i + 1, Append(groups, current_group),
                                      <<events[i]>>)

\* lines 675-693: the loop over the sorted events, at event i
RECURSIVE GroupEvents(_, _, _, _)
GroupEvents(events, i, groups, current_group) ==
    IF i > Len(events)
    THEN IF current_group # << >> THEN Append(groups, current_group) ELSE groups
    ELSE IF current_group = << >>
         THEN GroupEvents(events, i + 1, groups, <<events[i]>>)
         ELSE IF WithinWindow(events[i].timestamp, current_group[1].timestamp)
              THEN GroupEvents(events, i + 1, groups, Append(current_group, events[i]))
              ELSE GroupEvents(events, i + 1, Append(groups, current_group), <<events[i]>>)

Clusters(events) == GroupEvents(SortByTimestamp(events), 1, << >>, << >>)

\* the last group of the greatest length
LargestGroupLast(groups) ==
    groups[CHOOSE i \in 1..Len(groups) :
              /\ \A j \in 1..Len(groups) : Len(groups[j]) <= Len(groups[i])
              /\ \A j \in (i + 1)..Len(groups) : Len(groups[j]) < Len(groups[i])]

\* max(groups, key=len): the first group of the greatest length
LargestGroup(groups) ==
    groups[CHOOSE i \in 1..Len(groups) :
              /\ \A j \in 1..Len(groups) : Len(groups[j]) <= Len(groups[i])
              /\ \A j \in 1..(i - 1) : Len(groups[j]) < Len(groups[i])]

\* the hubs of the largest group, saved or not
RECURSIVE MembersUnfiltered(_, _)
MembersUnfiltered(group, existing) ==
    IF group = << >> THEN << >>
    ELSE IF Head(group).device.device_class = "hub"
         THEN <<Head(group).port_path>> \o MembersUnfiltered(Tail(group), existing)
         ELSE MembersUnfiltered(Tail(group), existing)

\* lines 710-718: the hubs of the largest group that are in no saved group
RECURSIVE Members(_, _)
Members(group, existing) ==
    IF group = << >> THEN << >>
    ELSE IF Head(group).device.device_class = "hub" /\ Head(group).port_path \notin existing
         THEN <<Head(group).port_path>> \o Members(Tail(group), existing)
         ELSE Members(Tail(group), existing)

\* lines 712-717: the hubs of the largest group that are in a saved group
RECURSIVE SkippedExisting(_, _)
SkippedExisting(group, existing) ==
    IF group = << >> THEN << >>
    ELSE IF Head(group).device.device_class = "hub" /\ Head(group).port_path \in existing
         THEN <<Head(group).port_path>> \o SkippedExisting(Tail(group), existing)
         ELSE SkippedExisting(Tail(group), existing)

Elements(list) == {list[i] : i \in 1..Len(list)}

\* the return value None of _analyze_disconnects: no group detected
NoGroup == [found |-> FALSE, members |-> << >>, has_storage |-> FALSE, timestamp |-> 0,
            skipped_existing |-> << >>]

\* the analysis with has_storage set by a storage device of any cluster
AnalyzeStorageAnywhere(events, saved) ==
    IF events = << >> THEN NoGroup
    ELSE LET largest_group == LargestGroup(Clusters(events))
             existing == ExistingGroupMembers(saved)
             members == Members(largest_group, existing)
         IN  IF members = << >> THEN NoGroup
             ELSE [found |-> TRUE,
                   members |-> members,
                   has_storage |-> \E i \in 1..Len(events) :
                                       events[i].device.device_class = "storage",
                   timestamp |-> largest_group[1].timestamp,
                   skipped_existing |-> SkippedExisting(largest_group, existing)]

\* USBMonitor._analyze_disconnects, its return value
AnalyzeDisconnects(events, saved) ==
    IF events = << >> THEN NoGroup
    ELSE LET largest_group == LargestGroup(Clusters(events))
             existing == ExistingGroupMembers(saved)
             members == Members(largest_group, existing)
         IN  IF members = << >> THEN NoGroup
             ELSE [found |-> TRUE,
                   members |-> members,
                   has_storage |-> \E i \in 1..Len(largest_group) :
                                       largest_group[i].device.device_class = "storage",
                   timestamp |-> largest_group[1].timestamp,
                   skipped_existing |-> SkippedExisting(largest_group, existing)]

\* the analysis run after the buffer was emptied
DetectedAfterClear(events, saved) == AnalyzeDisconnects(<< >>, saved)

\* lines 622-625: the detected_group of stop_learning_mode, analysed before
\* line 639 empties the buffer
DetectedAtStop(events, saved) == AnalyzeDisconnects(events, saved)

\* USBMonitor.start_learning_mode
StartLearningMode(exclude_storage) ==
    /\ learning_mode' = TRUE
    /\ learning_disconnects' = << >>
    /\ learning_exclude_storage' = exclude_storage
    /\ detected' = NoGroup
    /\ delivered' = EmitEvent(USBEvent("learning_started", None, NoDevice, FALSE))
    /\ response' = "started"
    /\ storage_devices' = HasStorageDevices
    /\ UNCHANGED <<treeVars, envVars, running, workers, polled, devices, bisectVars,
                   physical_groups>>

\* the check of lines 619-620 left out
StopInactiveUnchecked ==
    /\ response' = "cancelled"
    /\ delivered' = EmitEvent(USBEvent("learning_cancelled", None, NoDevice, FALSE))
    /\ learning_disconnects' = << >>
    /\ UNCHANGED <<learning_mode, detected, storage_devices, physical_groups>>

\* lines 619-620 of stop_learning_mode: no session is active
StopInactive ==
    /\ response' = "not_in_learning_mode"
    /\ delivered' = NoEvent
    /\ UNCHANGED <<learning_mode, learning_disconnects, detected, storage_devices, physical_groups>>

\* POST /api/learning/stop: USBMonitor.stop_learning_mode(save=False), then
\* the save of the route
StopLearningMode(save, name, label) ==
    /\ IF ~learning_mode
       THEN StopInactive
       ELSE /\ learning_mode' = FALSE
            /\ detected' = DetectedAtStop(learning_disconnects, physical_groups)
            /\ delivered' = EmitEvent(USBEvent("learning_cancelled", None, NoDevice, FALSE))
            /\ learning_disconnects' = << >>
            /\ UNCHANGED storage_devices
            /\ IF save /\ detected'.found /\ name # ""
               THEN /\ Len(physical_groups) < MaxGroups
                    /\ physical_groups' = AddedGroup(physical_groups, name,
                                                     Elements(detected'.members),
                                                     IF label # "" THEN label ELSE None)
                    /\ response' = "saved"
               ELSE /\ response' = "cancelled"
                    /\ UNCHANGED physical_groups
    /\ UNCHANGED <<treeVars, envVars, running, workers, polled, devices, bisectVars,
                   learning_exclude_storage>>

\* GET /api/learning/preview: _analyze_disconnects sorts the buffer it reads
PreviewLearningResult ==
    /\ learning_mode
    /\ learning_disconnects' = SortByTimestamp(learning_disconnects)
    /\ UNCHANGED <<treeVars, envVars, running, workers, response, polled, delivered, devices,
                   bisectVars, learning_mode, learning_exclude_storage, detected, storage_devices,
                   physical_groups>>

(***************************************************************************)
(* Strings, as sequences of characters, and int() and str() on them        *)
(***************************************************************************)
DigitChars == <<"0", "1", "2", "3", "4", "5", "6", "7", "8", "9">>

IsDigit(c) == \E i \in 1..10 : DigitChars[i] = c

DigitValue(c) == (CHOOSE i \in 1..10 : DigitChars[i] = c) - 1

\* the value of a run of decimal digits
RECURSIVE DigitsValue(_)
DigitsValue(chars) ==
    IF chars = << >> THEN 0
    ELSE 10 * DigitsValue(SubSeq(chars, 1, Len(chars) - 1)) + DigitValue(chars[Len(chars)])

\* int(s) raises no ValueError: an optional sign, then digits only
IntParses(chars) ==
    LET digits == IF chars # << >> /\ chars[1] = "-" THEN Tail(chars) ELSE chars
    IN  digits # << >> /\ \A i \in 1..Len(digits) : IsDigit(digits[i])

\* int(s)
IntOf(chars) ==
    IF chars[1] = "-" THEN 0 - DigitsValue(Tail(chars)) ELSE DigitsValue(chars)

\* str(n) of n >= 0
RECURSIVE NatStr(_)
NatStr(n) ==
    IF n < 10 THEN <<DigitChars[n + 1]>>
    ELSE NatStr(n \div 10) \o <<DigitChars[(n % 10) + 1]>>

\* str(n)
IntStr(n) == IF n < 0 THEN <<"-">> \o NatStr(0 - n) ELSE NatStr(n)

\* the strings of at most n characters of the set chars
RECURSIVE Strings(_, _)
Strings(chars, n) ==
    IF n = 0 THEN {<< >>}
    ELSE LET shorter == Strings(chars, n - 1)
         IN  shorter \cup {Append(s, c) : s \in shorter, c \in chars}

(***************************************************************************)
(* parse_speed, in usb_explorer and in usb_debug_tool                      *)
(***************************************************************************)
MaxSpeedLen == 4

\* the characters of the SPEED property tried
SpeedChars == {"0", "4", "5", "8", "9", "-", "x"}

Unknown == <<"U", "n", "k", "n", "o", "w", "n">>

\* usb_explorer.usb_monitor.parse_speed
parse_speed(speed_str) ==
    IF speed_str = << >> THEN << >>
    ELSE IF ~IntParses(speed_str) THEN << >>
    ELSE LET speed == IntOf(speed_str)
         IN  IF speed >= 5000 THEN IntStr(speed \div 1000) \o <<"G">>
             ELSE IntStr(speed) \o <<"M">>

\* usb_debug_tool.usb_monitor.parse_speed
debug_tool_parse_speed(speed_str) ==
    IF speed_str = << >> THEN Unknown
    ELSE IF ~IntParses(speed_str) THEN speed_str
    ELSE LET speed == IntOf(speed_str)
         IN  IF speed >= 5000 THEN IntStr(speed \div 1000) \o <<"G">>
             ELSE IntStr(speed) \o <<"M">>

\* build_usb_device of usb_explorer formats the SPEED property
ParseSpeed ==
    /\ called = None
    /\ called' = "usb_explorer.parse_speed"
    /\ ret' = parse_speed(args)
    /\ UNCHANGED <<treeVars, world, clock, runs, callbacks, running, workers, response,
                   attached, queue, polled, scan, args, devices, delivered, bisectVars,
                   learnVars, physical_groups>>

\* build_usb_device of usb_debug_tool formats the SPEED property
DebugToolParseSpeed ==
    /\ called = None
    /\ called' = "usb_debug_tool.parse_speed"
    /\ ret' = debug_tool_parse_speed(args)
    /\ UNCHANGED <<treeVars, world, clock, runs, callbacks, running, workers, response,
                   attached, queue, polled, scan, args, devices, delivered, bisectVars,
                   learnVars, physical_groups>>

(***************************************************************************)
(* get_device_class                                                        *)
(***************************************************************************)
MaxInterfaces == 2

HexChars == <<"0", "1", "2", "3", "4", "5", "6", "7", "8", "9", "a", "b", "c", "d", "e", "f">>

IsHexDigit(c) == \E i \in 1..16 : HexChars[i] = c

HexDigitValue(c) == (CHOOSE i \in 1..16 : HexChars[i] = c) - 1

\* int(s, 16) raises no ValueError
HexParses(chars) == chars # << >> /\ \A i \in 1..Len(chars) : IsHexDigit(chars[i])

\* int(s, 16)
RECURSIVE HexOf(_)
HexOf(chars) ==
    IF chars = << >> THEN 0
    ELSE 16 * HexOf(SubSeq(chars, 1, Len(chars) - 1)) + HexDigitValue(chars[Len(chars)])

\* lines 28-55: the class of a known driver, None for any other driver
DriverClass(driver, keyboard, mouse) ==
    IF driver = "hub" THEN "hub"
    ELSE IF driver \in {"usbhid", "hid-generic"}
         THEN IF keyboard THEN "hid_keyboard"
              ELSE IF mouse THEN "hid_mouse"
              ELSE "hid_other"
    ELSE IF driver \in {"snd-usb-audio", "snd_usb_audio"} THEN "audio"
    ELSE IF driver \in {"uvcvideo", "uvc"} THEN "video"
    ELSE IF driver \in {"usb-storage", "uas"} THEN "storage"
    ELSE IF driver \in {"usblp"} THEN "printer"
    ELSE IF driver \in {"btusb", "ath3k", "rtl8xxxu"} THEN "wireless"
    ELSE IF driver \in {"cdc_acm", "cdc_ether", "ch341", "cp210x", "ftdi_sio", "pl2303"}
         THEN "comm"
    ELSE None

\* lines 58-64: the class of an ID_TYPE
TypeClass(id_type) ==
    IF id_type = "video" THEN "video"
    ELSE IF id_type = "audio" THEN "audio"
    ELSE IF id_type = "disk" THEN "storage"
    ELSE None

\* lines 67-72: the class of the ID_INPUT properties
InputClass(keyboard, mouse, input) ==
    IF keyboard THEN "hid_keyboard"
    ELSE IF mouse THEN "hid_mouse"
    ELSE IF input THEN "hid_other"
    ELSE None

\* lines 85-105: the class of a bDeviceClass string
CodeClass(bDeviceClass) ==
    IF bDeviceClass = << >> \/ ~HexParses(bDeviceClass) THEN None
    ELSE LET class_code == HexOf(bDeviceClass)
         IN  IF class_code = 9 THEN "hub"
             ELSE IF class_code = 1 THEN "audio"
             ELSE IF class_code = 2 THEN "comm"
             ELSE IF class_code = 3 THEN "hid_other"
             ELSE IF class_code = 7 THEN "printer"
             ELSE IF class_code = 8 THEN "storage"
             ELSE IF class_code = 14 THEN "video"
             ELSE IF class_code = 224 THEN "wireless"
             ELSE None

\* lines 146-165: the class of a bInterfaceClass string
InterfaceCodeClass(bInterfaceClass) ==
    IF bInterfaceClass = << >> \/ ~HexParses(bInterfaceClass) THEN None
    ELSE LET iface_class == HexOf(bInterfaceClass)
         IN  IF iface_class = 1 THEN "audio"
             ELSE IF iface_class = 2 THEN "comm"
             ELSE IF iface_class = 3 THEN "hid_other"
             ELSE IF iface_class = 7 THEN "printer"
             ELSE IF iface_class = 8 THEN "storage"
             ELSE IF iface_class = 14 THEN "video"
             ELSE IF iface_class = 224 THEN "wireless"
             ELSE None

\* lines 115-143: the class of the driver of an interface, whose input devices
\* set the keyboard and mouse flags
InterfaceDriverClass(child) ==
    IF child.driver \in {"usbhid", "hid-generic", "hid"}
    THEN IF child.keyboard THEN "hid_keyboard"
         ELSE IF child.mouse THEN "hid_mouse"
         ELSE "hid_other"
    ELSE IF child.driver = "hub" THEN None
    ELSE DriverClass(child.driver, FALSE, FALSE)

\* lines 110-165: the loop over the child interfaces, at child i
RECURSIVE ChildrenClass(_, _)
ChildrenClass(child_list, i) ==
    IF i > Len(child_list) THEN None
    ELSE IF InterfaceDriverClass(child_list[i]) # None
         THEN InterfaceDriverClass(child_list[i])
    ELSE IF InterfaceCodeClass(child_list[i].bInterfaceClass) # None
         THEN InterfaceCodeClass(child_list[i].bInterfaceClass)
    ELSE ChildrenClass(child_list, i + 1)

\* the cascade with the descriptor's class code read before the driver
ClassCodeFirst(device) ==
    LET bDeviceClass == IF device.bDeviceClass # << >> THEN device.bDeviceClass
                        ELSE device.sysfs_bDeviceClass
    IN  IF CodeClass(bDeviceClass) # None THEN CodeClass(bDeviceClass)
        ELSE IF DriverClass(device.driver, device.keyboard, device.mouse) # None
             THEN DriverClass(device.driver, device.keyboard, device.mouse)
        ELSE IF TypeClass(device.id_type) # None THEN TypeClass(device.id_type)
        ELSE IF InputClass(device.keyboard, device.mouse, device.input) # None
             THEN InputClass(device.keyboard, device.mouse, device.input)
        ELSE IF ChildrenClass(device.children, 1) # None
             THEN ChildrenClass(device.children, 1)
        ELSE "unknown"

\* get_device_class: the rules in the order of the code
get_device_class(device) ==
    LET bDeviceClass == IF device.bDeviceClass # << >> THEN device.bDeviceClass
                        ELSE device.sysfs_bDeviceClass
    IN  IF DriverClass(device.driver, device.keyboard, device.mouse) # None
        THEN DriverClass(device.driver, device.keyboard, device.mouse)
        ELSE IF TypeClass(device.id_type) # None THEN TypeClass(device.id_type)
        ELSE IF InputClass(device.keyboard, device.mouse, device.input) # None
             THEN InputClass(device.keyboard, device.mouse, device.input)
        ELSE IF CodeClass(bDeviceClass) # None THEN CodeClass(bDeviceClass)
        ELSE IF ChildrenClass(device.children, 1) # None
             THEN ChildrenClass(device.children, 1)
        ELSE "unknown"

\* the udev properties tried
Drivers == {"", "hub", "usbhid", "usb-storage", "usb"}

IdTypes == {"", "video", "disk", "generic"}

Interfaces ==
    {[driver |-> "usbhid", keyboard |-> TRUE, mouse |-> FALSE, bInterfaceClass |-> <<"0", "3">>],
     [driver |-> "", keyboard |-> FALSE, mouse |-> FALSE, bInterfaceClass |-> <<"0", "e">>],
     [driver |-> "uas", keyboard |-> FALSE, mouse |-> FALSE, bInterfaceClass |-> <<"0", "8">>],
     [driver |-> "", keyboard |-> FALSE, mouse |-> FALSE, bInterfaceClass |-> <<"f", "f">>]}

UdevDevices ==
    [driver : Drivers, id_type : IdTypes, keyboard : BOOLEAN, mouse : BOOLEAN,
     input : BOOLEAN, bDeviceClass : {<< >>, <<"0", "9">>, <<"0", "8">>, <<"z", "z">>},
     sysfs_bDeviceClass : {<< >>, <<"e", "0">>, <<"0", "0">>},
     children : Strings(Interfaces, MaxInterfaces)]

\* build_usb_device classifies the udev device
GetDeviceClass ==
    /\ called = None
    /\ called' = "get_device_class"
    /\ ret' = get_device_class(args)
    /\ UNCHANGED <<treeVars, world, clock, runs, callbacks, running, workers, response,
                   attached, queue, polled, scan, args, devices, delivered, bisectVars,
                   learnVars, physical_groups>>

(***************************************************************************)
(* The lists _build_tree is called with                                    *)
(***************************************************************************)
MaxTreeDevices == 3

TreeDevices == [port_path : TreePorts, is_root_hub : BOOLEAN]

\* the lists of devices with pairwise distinct port paths
DeviceLists ==
    {list \in Strings(TreeDevices, MaxTreeDevices) :
        \A i, j \in 1..Len(list) : i # j => list[i].port_path # list[j].port_path}

\* scan_devices builds the tree of the devices it listed
CallBuildTree ==
    /\ called = None
    /\ called' = "_build_tree"
    /\ ret' = BuildTree(args)
    /\ UNCHANGED <<treeVars, world, clock, runs, callbacks, running, workers, response,
                   attached, queue, polled, scan, args, devices, delivered, bisectVars,
                   learnVars, physical_groups>>

(***************************************************************************)
(* Specification of the bisection test with one request                    *)
(***************************************************************************)
InitProgram ==
    /\ devices = << >>
    /\ authorized = [p \in Ports |-> 1]
    /\ pc = [r \in Runs |-> "idle"]
    /\ target = [r \in Runs |-> None]
    /\ locals = [r \in Runs |-> NoLocals]
    /\ result = [r \in Runs |-> NoResult]
    /\ perm_seen = [r \in Runs |-> FALSE]
    /\ observed = [r \in Runs |-> {}]
    /\ learning_mode = FALSE
    /\ learning_disconnects = << >>
    /\ learning_exclude_storage = FALSE
    /\ detected = NoGroup
    /\ physical_groups = << >>
    /\ delivered = NoEvent
    /\ response = None
    /\ attached = {}
    /\ queue = << >>
    /\ polled = Notification(None, None)
    /\ scan = NoScan
    /\ children = EmptyTree.children
    /\ linked = {}
    /\ storage_devices = << >>

\* the lifespan has started the monitor: the listener that polls the queue
\* is its one worker
MonitorStarted ==
    /\ running = TRUE
    /\ workers = << >>

\* no pure function is being called
NoCall ==
    /\ args = None
    /\ called = None
    /\ ret = None

InitWith(w, rs, f) ==
    /\ world = w
    /\ clock = Times
    /\ runs = rs
    /\ faults = f
    /\ callbacks = << >>
    /\ NoCall
    /\ MonitorStarted
    /\ InitProgram

Init == InitWith(Ports, {1}, 0)

\* a host with one of the sets of ports ws and a clock that stands still; the
\* callbacks cbs are registered, and the lifespan has started the monitor or not
InitHost(ws, rs, f, cbs, started) ==
    /\ world \in ws
    /\ clock = {0}
    /\ runs = rs
    /\ faults = f
    /\ callbacks = cbs
    /\ NoCall
    /\ running = started
    /\ workers = << >>
    /\ InitProgram

Next ==
    \/ \E p \in Ports : MonitorAdd(p)
    \/ \E p \in Ports, ts \in Clock : MonitorRemove(p, ts)
    \/ \E r \in Runs, p \in Ports, exists \in BOOLEAN : TestHubCheck(r, p, exists)
    \/ \E r \in Runs : TestHubDisable(r)
    \/ \E r \in Runs : TestHubObserve(r)
    \/ \E r \in Runs : TestHubPhase2(r)
    \/ \E r \in Runs : TestHubNextCandidate(r)
    \/ \E r \in Runs : TestHubCheckCandidate(r)
    \/ \E r \in Runs : TestHubCandidateDone(r)
    \/ \E r \in Runs : TestHubFinish(r)
    \/ \E r \in Runs : TestHubCancel(r)

Spec == Init /\ [][Next]_vars

\* what run r does between its first write and its return: the event loop
\* resumes a coroutine once its asyncio.sleep has elapsed
TestHubStep(r) ==
    \/ TestHubDisable(r)
    \/ TestHubObserve(r)
    \/ TestHubPhase2(r)
    \/ TestHubNextCandidate(r)
    \/ TestHubCheckCandidate(r)
    \/ TestHubCandidateDone(r)
    \/ TestHubFinish(r)

SpecFair == Spec /\ \A r \in Runs : WF_vars(TestHubStep(r))

\* two requests on a host with two hubs below the root hub, no write failing
SpecConc == InitWith({"usb1", "1-1", "1-1.1"}, {1, 2}, MaxFaults) /\ [][Next]_vars

(***************************************************************************)
(* Specification of learning sessions: two hubs and a storage device       *)
(***************************************************************************)
NextLearn ==
    \/ \E p \in Ports : MonitorAdd(p)
    \/ \E p \in Ports, ts \in Clock : MonitorRemove(p, ts)
    \/ \E exclude_storage \in BOOLEAN : StartLearningMode(exclude_storage)
    \/ \E save \in BOOLEAN, name \in {"", "g1"} : StopLearningMode(save, name, "")
    \/ PreviewLearningResult

SpecLearn == InitWith({"1-1", "1-1.1", "1-2"}, {}, 0) /\ [][NextLearn]_vars

(***************************************************************************)
(* Specification of the device map: the kernel, the listener thread and    *)
(* rescans, with one callback registered and learning sessions             *)
(***************************************************************************)
NextMonitor ==
    \/ \E p \in Ports : KernelAttach(p)
    \/ \E p \in Ports : KernelDetach(p)
    \/ MonitorPoll
    \/ ScanBegin
    \/ ScanBuild
    \/ ScanInsert
    \/ ScanEnd
    \/ StartLearningMode(FALSE)
    \/ StopLearningMode(FALSE, "", "")

SpecMonitor ==
    InitHost({{"1-1", "1-1.1"}}, {}, 0, <<"ok">>, TRUE) /\ [][NextMonitor]_vars

\* a root hub with a hub or with a storage device below it, the listener,
\* rescans and learning sessions started with either value of exclude_storage
NextRequests ==
    \/ \E p \in Ports : KernelAttach(p)
    \/ \E p \in Ports : KernelDetach(p)
    \/ MonitorPoll
    \/ ScanBegin
    \/ ScanBuild
    \/ ScanInsert
    \/ ScanEnd
    \/ \E exclude_storage \in BOOLEAN : StartLearningMode(exclude_storage)
    \/ StopLearningMode(FALSE, "", "")

SpecRequests ==
    InitHost({{"usb1", "1-1"}, {"usb1", "1-2"}}, {}, 0, << >>, TRUE) /\ [][NextRequests]_vars

(***************************************************************************)
(* Specification of the listener's threads on a host with one hub: the     *)
(* monitor is started and stopped, the kernel notifies every socket, and   *)
(* learning sessions start and stop on the request path                    *)
(***************************************************************************)
NextThreads ==
    \/ StartMonitoring
    \/ StopMonitoring
    \/ \E p \in Ports : SocketAttach(p)
    \/ \E p \in Ports : SocketDetach(p)
    \/ \E w \in 1..MaxWorkers : WorkerPoll(w)
    \/ \E w \in 1..MaxWorkers, ts \in clock : WorkerTrack(w, ts)
    \/ StartLearningMode(FALSE)
    \/ \E save \in BOOLEAN, name \in {"", "g1"} : StopLearningMode(save, name, "")

SpecThreads ==
    InitHost({{"1-1"}}, {}, 0, <<"raises", "ok">>, FALSE) /\ [][NextThreads]_vars

(***************************************************************************)
(* Specification of the bisection test beside learning sessions: one       *)
(* request on a host with two hubs, no write failing                       *)
(***************************************************************************)
NextTestLearn ==
    \/ Next
    \/ StartLearningMode(FALSE)
    \/ StopLearningMode(FALSE, "", "")

SpecTestLearn ==
    InitHost({{"1-1", "1-1.1"}}, {1}, MaxFaults, << >>, TRUE) /\ [][NextTestLearn]_vars

(***************************************************************************)
(* Specification of the pure functions: one call on each input             *)
(***************************************************************************)
InitCall(inputs) ==
    /\ world = {}
    /\ clock = {0}
    /\ runs = {}
    /\ faults = 0
    /\ callbacks = << >>
    /\ args \in inputs
    /\ called = None
    /\ ret = None
    /\ MonitorStarted
    /\ InitProgram

NextSpeed ==
    \/ ParseSpeed
    \/ DebugToolParseSpeed

SpecSpeed == InitCall(Strings(SpeedChars, MaxSpeedLen)) /\ [][NextSpeed]_vars

SpecClass == InitCall(UdevDevices) /\ [][GetDeviceClass]_vars

SpecTree == InitCall(DeviceLists) /\ [][CallBuildTree]_vars

(***************************************************************************)
(* Specification of the saved groups                                       *)
(***************************************************************************)
NextGroups ==
    \/ \E name \in GroupNames, members \in SUBSET NonRootHubs([p \in Ports |-> BuildUsbDevice(p)]),
          label \in Labels : AddPhysicalGroup(name, members, label)
    \/ \E old_name \in GroupNames, name \in GroupNames, label \in Labels :
          UpdatePhysicalGroup(old_name, name, label)
    \/ \E name \in GroupNames : RemovePhysicalGroup(name)

SpecGroups == Init /\ [][NextGroups]_vars

(***************************************************************************)
(* Claims about test_hub                                                   *)
(***************************************************************************)
AllAuthorized == \A p \in Ports : authorized[p] = 1

\* C1: when test_hub returns, on every path, the target and every candidate it
\* de-authorized are in the authorized state again (stated here for runs in
\* which at most one sysfs access failed)
C1_AuthorizedAtReturn ==
    \A r \in Runs : (pc[r] = "done" /\ faults <= 1) => AllAuthorized

\* C2: a run that returns while a device it de-authorized is still
\* de-authorized, its restoring write having failed, returns an error
C2_RecoveryFailureReported ==
    \A r \in Runs : (pc[r] = "done" /\ ~AllAuthorized) => result[r].status = "error"

\* C3: a run cancelled in a settle interval leaves no device de-authorized
\* (stated here for runs in which no sysfs access failed)
C3_RestoredAfterCancel ==
    \A r \in Runs : (pc[r] = "cancelled" /\ faults = 0) => AllAuthorized

\* C4: the members of a successful result are the target and exactly the
\* candidates after whose de-authorization and settle the target was absent
\* from the device map, whatever the order of the candidates
C4_MembersAreBidirectional ==
    \A r \in Runs :
        (pc[r] = "done" /\ result[r].status = "success") =>
            result[r].members = {target[r]} \cup {c \in Ports : <<c, TRUE>> \in observed[r]}

\* hub A with candidates B and C: B left A present, C made A absent
C4_Witness ==
    /\ pc[1] = "done"
    /\ target[1] = "1-1"
    /\ observed[1] = {<<"1-1.1", FALSE>>, <<"1-1.2", TRUE>>}
    /\ result[1] = SuccessResult({"1-1", "1-1.2"})

\* C5: at most one test_hub run is in flight at any time
C5_SingleTestInFlight ==
    Cardinality({r \in Runs : pc[r] \in InFlightPcs}) <= 1

\* C6: a run in which a write failed with a permission error returns the
\* permission-denied error (stated here for runs in which one sysfs access failed)
C6_PermissionDeniedReported ==
    \A r \in Runs :
        (pc[r] = "done" /\ perm_seen[r] /\ faults <= 1) => result[r] = PermissionDenied

\* C7: a request for a port that is not in the device map, that is not a hub
\* or that has no authorization control returns its own error, and writes no
\* authorization attribute and leaves the device map alone
C7_PreconditionErrors ==
    [][\A r \in Runs :
          (pc[r] = "idle" /\ pc'[r] # "idle") =>
              /\ target'[r] \notin DOMAIN devices =>
                     (pc'[r] = "done" /\ result'[r] = HubNotFound)
              /\ (target'[r] \in DOMAIN devices /\ devices[target'[r]].device_class # "hub") =>
                     (pc'[r] = "done" /\ result'[r] = NotAHub)
              /\ pc'[r] = "done" =>
                     /\ result'[r] \in {HubNotFound, NotAHub, NoSysfs}
                     /\ result'[r] = HubNotFound => target'[r] \notin DOMAIN devices
                     /\ result'[r] = NotAHub => target'[r] \in DOMAIN devices
                     /\ result'[r] = NoSysfs =>
                            /\ target'[r] \in DOMAIN devices
                            /\ devices[target'[r]].device_class = "hub"
                     /\ authorized' = authorized
                     /\ faults' = faults
                     /\ devices' = devices
              /\ Cardinality({HubNotFound.message, NotAHub.message, NoSysfs.message}) = 3
      ]_vars

\* the three errors have each been returned
C7_Witness ==
    /\ pc[1] = "done"
    /\ result[1] = NoSysfs
    /\ target[1] = "1-1.1"

C34_TargetAlwaysMember ==
    \A r \in Runs :
        /\ result[r].status = "success" => target[r] \in result[r].members
        /\ result[r] # NoHubs
        /\ pc[r] \in {"p2_loop", "p2_settle", "p2_reconnect", "final_settle"} =>
               target[r] \in locals[r].same_device_hubs

\* a run returned success while its target is absent from the device map
C34_Witness ==
    \E r \in Runs :
        /\ pc[r] = "done"
        /\ result[r].status = "success"
        /\ target[r] \in result[r].members
        /\ target[r] \notin DOMAIN devices

\* C35: Phase 2 adds a candidate to the confirmed set only if the target was in
\* the device map when the candidate was de-authorized and is absent from it
\* when the settle interval ends
C35_AddedOnlyOnDisappearance ==
    [][\A r \in Runs :
          (/\ pc[r] = "p2_settle"
           /\ locals[r].candidate \in
                  locals'[r].same_device_hubs \ locals[r].same_device_hubs)
          => (locals[r].target_before /\ target[r] \notin DOMAIN devices)
      ]_vars

\* C38: the candidates a run tests in Phase 2 never include its target, and
\* after Phase 1 no step of the run writes the authorization attribute of the
\* target
C38_TargetNotACandidate ==
    /\ [](\A r \in Runs : target[r] \notin locals[r].candidate_hubs \cup locals[r].untested)
    /\ [][\A r \in Runs :
             pc[r] \in {"p2_loop", "p2_settle", "p2_reconnect", "final_settle"} =>
                 authorized'[target[r]] = authorized[target[r]]
         ]_vars

(***************************************************************************)
(* Claims about learning sessions and saved groups                         *)
(***************************************************************************)
RECURSIVE Flatten(_)
Flatten(groups) == IF groups = << >> THEN << >> ELSE Head(groups) \o Flatten(Tail(groups))

Occurrences(events, e) == Cardinality({i \in 1..Len(events) : events[i] = e})

TimestampsOf(events) == [i \in 1..Len(events) |-> events[i].timestamp]

\* C8: the buffered events are clustered in timestamp order with a window
\* anchored at the first event of a cluster: every event of a cluster is at
\* most 100 ms after the cluster's first event, and a cluster starts exactly at
\* an event more than 100 ms after the first event of the cluster before it
C8_AnchoredClusters ==
    learning_mode =>
        LET groups == Clusters(learning_disconnects)
            sorted == Flatten(groups)
        IN  /\ Len(sorted) = Len(learning_disconnects)
            /\ \A i \in 1..Len(sorted) :
                   Occurrences(sorted, sorted[i]) =
                       Occurrences(learning_disconnects, sorted[i])
            /\ \A i \in 1..(Len(sorted) - 1) : sorted[i].timestamp <= sorted[i + 1].timestamp
            /\ \A k \in 1..Len(groups) :
                   /\ groups[k] # << >>
                   /\ \A j \in 1..Len(groups[k]) :
                          groups[k][j].timestamp - groups[k][1].timestamp <= 100
                   /\ k > 1 => groups[k][1].timestamp - groups[k - 1][1].timestamp > 100

\* events buffered at 120, 0 and 100 ms: 100 joins the cluster of 0, and 120
\* starts a new cluster although it is 20 ms after the event before it
C8_Witness ==
    /\ learning_mode
    /\ TimestampsOf(learning_disconnects) = <<120, 0, 100>>
    /\ LET groups == Clusters(learning_disconnects)
       IN  /\ Len(groups) = 2
           /\ TimestampsOf(groups[1]) = <<0, 100>>
           /\ TimestampsOf(groups[2]) = <<120>>

WinningCluster == LargestGroup(Clusters(learning_disconnects))

SavedMembers == {p \in Ports : \E i \in 1..Len(physical_groups) : p \in physical_groups[i].members}

\* C9: the members of an analysis result hold no port path of a saved group,
\* and the result lists under skipped_existing every hub of the winning
\* cluster that is in a saved group
C9_SavedHubsExcluded ==
    learning_mode =>
        LET analysis == AnalyzeDisconnects(learning_disconnects, physical_groups)
        IN  analysis.found =>
                /\ Elements(analysis.members) \cap SavedMembers = {}
                /\ \A i \in 1..Len(WinningCluster) :
                       (/\ WinningCluster[i].device.device_class = "hub"
                        /\ WinningCluster[i].port_path \in SavedMembers)
                       => WinningCluster[i].port_path \in Elements(analysis.skipped_existing)

\* the winning cluster holds a saved hub and a hub that is in no group
C9_Witness ==
    /\ learning_mode
    /\ physical_groups # << >>
    /\ LET analysis == AnalyzeDisconnects(learning_disconnects, physical_groups)
       IN  /\ analysis.found
           /\ analysis.skipped_existing # << >>
           /\ \E i \in 1..Len(WinningCluster) :
                  WinningCluster[i].port_path \in SavedMembers

\* C23: the result of an analysis is taken from a cluster with the greatest
\* number of events, the earliest such cluster in timestamp order: its
\* timestamp is that of the first event of that cluster and its members are
\* port paths of that cluster
C23_EarliestLargestWins ==
    learning_mode =>
        LET groups == Clusters(learning_disconnects)
            analysis == AnalyzeDisconnects(learning_disconnects, physical_groups)
        IN  analysis.found =>
                \E k \in 1..Len(groups) :
                    /\ \A j \in 1..Len(groups) : Len(groups[j]) <= Len(groups[k])
                    /\ \A j \in 1..(k - 1) : Len(groups[j]) < Len(groups[k])
                    /\ analysis.timestamp = groups[k][1].timestamp
                    /\ Elements(analysis.members) \subseteq
                           {groups[k][i].port_path : i \in 1..Len(groups[k])}

\* hub 1-1.1 was buffered at 120 ms and hub 1-1 then at 0 ms: two clusters of
\* one event, and the result is that of the cluster at 0 ms
C23_Witness ==
    /\ learning_mode
    /\ Len(learning_disconnects) = 2
    /\ TimestampsOf(learning_disconnects) = <<120, 0>>
    /\ learning_disconnects[1].port_path = "1-1.1"
    /\ learning_disconnects[2].port_path = "1-1"
    /\ Len(Clusters(learning_disconnects)) = 2
    /\ LET analysis == AnalyzeDisconnects(learning_disconnects, physical_groups)
       IN  /\ analysis.found
           /\ analysis.timestamp = 0
           /\ analysis.members = <<"1-1">>

\* the events of the winning cluster whose device is a hub in no saved group
EligibleHubs ==
    {i \in 1..Len(WinningCluster) :
        /\ WinningCluster[i].device.device_class = "hub"
        /\ WinningCluster[i].port_path \notin SavedMembers}

\* C24: the members of an analysis result are the port paths of the events of
\* the winning cluster whose device is a hub in no saved group, one for each;
\* has_storage tells whether an event of the winning cluster has a storage
\* device; and the analysis finds no group exactly when the winning
\* cluster has no such hub, whatever the other clusters hold
C24_MembersFromWinner ==
    (learning_mode /\ learning_disconnects # << >>) =>
        LET analysis == AnalyzeDisconnects(learning_disconnects, physical_groups)
        IN  /\ analysis.found <=> EligibleHubs # {}
            /\ analysis.found =>
                   /\ Elements(analysis.members) =
                          {WinningCluster[i].port_path : i \in EligibleHubs}
                   /\ Len(analysis.members) = Cardinality(EligibleHubs)
                   /\ analysis.has_storage <=>
                          \E i \in 1..Len(WinningCluster) :
                              WinningCluster[i].device.device_class = "storage"

\* the storage device at 0 ms and the saved hub 1-1 at 100 ms are the winning
\* cluster, hub 1-1.1 at 120 ms is a cluster of its own: no group is detected
C24_Witness ==
    /\ learning_mode
    /\ Len(learning_disconnects) = 3
    /\ Len(Clusters(learning_disconnects)) = 2
    /\ {WinningCluster[i].port_path : i \in 1..Len(WinningCluster)} = {"1-2", "1-1"}
    /\ "1-1" \in SavedMembers
    /\ \E i \in 1..3 :
           /\ learning_disconnects[i].port_path = "1-1.1"
           /\ learning_disconnects[i].device.device_class = "hub"
    /\ "1-1.1" \notin SavedMembers
    /\ ~AnalyzeDisconnects(learning_disconnects, physical_groups).found

\* C10: no port path is a member of two saved physical groups
C10_GroupsDisjoint ==
    \A i, j \in 1..Len(physical_groups) :
        i # j => physical_groups[i].members \cap physical_groups[j].members = {}

(***************************************************************************)
(* Claims about learning sessions and the listener                         *)
(***************************************************************************)
\* C13: start_learning_mode called while a session is active fails and leaves
\* the active flag, the buffered disconnect events and the exclude-storage
\* flag of the running session as they are
C13_StartRejectedWhileLearning ==
    [][(learning_mode /\ \E exclude_storage \in BOOLEAN : StartLearningMode(exclude_storage))
          => UNCHANGED <<learning_mode, learning_disconnects, learning_exclude_storage>>
      ]_vars

\* C14: a stop request during a session leaves the monitor idle with an empty
\* buffer, and its detected_group is the analysis of the events buffered when
\* it was called, whether it saves or not
C14_StopReturnsAnalysis ==
    [][(learning_mode /\ ~learning_mode') =>
          /\ learning_disconnects' = << >>
          /\ detected' = AnalyzeDisconnects(learning_disconnects, physical_groups)
      ]_vars

\* a session with two hubs unplugged together was stopped and saved
C14_Witness ==
    /\ ~learning_mode
    /\ learning_disconnects = << >>
    /\ detected.found
    /\ Len(detected.members) = 2
    /\ physical_groups # << >>
    /\ physical_groups[Len(physical_groups)].members = Elements(detected.members)

\* C15: a preview leaves the session as it is: the active flag stays true and
\* the buffer holds the same events in the same order
C15_PreviewLeavesBuffer ==
    [][PreviewLearningResult => UNCHANGED <<learning_mode, learning_disconnects>>]_vars

C16_UnknownRemoveIsNoOp ==
    [][(/\ queue # << >>
        /\ queue' = Tail(queue)
        /\ Head(queue).action = "remove"
        /\ Head(queue).port \notin DOMAIN devices) =>
          /\ devices' = devices
          /\ delivered' = NoEvent
          /\ learning_disconnects' = learning_disconnects
          /\ polled' = Head(queue)
      ]_vars

\* in a session, the remove notification of a port a rescan had dropped from
\* the map was taken by the loop, which handed no event to the callback
C16_Witness ==
    /\ learning_mode
    /\ polled = Notification("remove", "1-1")
    /\ "1-1" \notin DOMAIN devices
    /\ delivered = NoEvent
    /\ learning_disconnects = << >>

\* C18: a rescan does not interleave with the listener: no remove notification
\* for a device that was in the map when the rescan began finds its port path
\* gone from the map, and once the rescan has returned and every notification
\* is handled the map holds no device the kernel reported removed
C18_RescanNeverInterleaves ==
    /\ [][(/\ scan.pc # "idle"
           /\ queue # << >>
           /\ queue' = Tail(queue)
           /\ Head(queue).action = "remove"
           /\ Head(queue).port \in scan.before) =>
             Head(queue).port \in DOMAIN devices
         ]_vars
    /\ []((scan.pc = "idle" /\ queue = << >>) => DOMAIN devices \subseteq attached)

\* C22: every entry of the device map is keyed by the port_path of the device
\* it holds, and an insertion by the listener or by a rescan for a port path
\* that is a key already replaces that entry and adds none
C22_KeyedByPortPath ==
    /\ [](\A p \in DOMAIN devices : devices[p].port_path = p)
    /\ [][(/\ queue # << >>
           /\ queue' = Tail(queue)
           /\ Head(queue).action = "add"
           /\ Head(queue).port \in DOMAIN devices) => DOMAIN devices' = DOMAIN devices
         ]_vars
    /\ [][(/\ scan.pc = "built"
           /\ scan'.pc = "listing"
           /\ scan.usb_dev \in DOMAIN devices) => DOMAIN devices' = DOMAIN devices
         ]_vars

\* a rescan that found the map empty has listed and inserted hub 1-1, and
\* the listener has handled the add notification of hub 1-1 since the map
\* was cleared: the map holds the one entry, beside that of hub 1-1.1
C22_Witness ==
    /\ scan.pc = "listing"
    /\ scan.before = {}
    /\ scan.devices_flat = <<"1-1", "1-1.1">>
    /\ polled = Notification("add", "1-1")
    /\ queue = << >>
    /\ DOMAIN devices = {"1-1", "1-1.1"}
    /\ devices["1-1"] = BuildUsbDevice("1-1")

\* a turn of the listener's loop: it takes the notification at the head
ListenerTurn == queue # << >> /\ queue' = Tail(queue)

C25_BufferEmptyWhenIdle ==
    ~learning_mode => learning_disconnects = << >>

\* the threads that apply the notifications they take: those alive while the
\* monitor is running
Appliers == IF running THEN Alive ELSE {}

\* C26: at most one thread of the listener is alive and applies notifications
\* to the device map at any time, start_monitoring starts no thread while
\* the monitor is running, and a thread it starts is the only one alive
C26_SingleWorker ==
    /\ [](Cardinality(Appliers) <= 1)
    /\ [][Len(workers') > Len(workers) => (~running /\ Alive = {})]_vars

\* C27: a thread that is alive once the monitor is stopped is not waiting for
\* a notification to end, so it terminates though no notification arrives,
\* and a notification a thread takes while the monitor is stopped changes
\* neither the device map nor the events handed to the callback
C27_StopEndsWorker ==
    /\ [](\A w \in Alive :
             ~running => (workers[w].pc # "poll" \/ workers[w].socket # << >>))
    /\ [][\A w \in Alive :
             (/\ ~running
              /\ workers[w].pc = "poll"
              /\ workers[w].socket # << >>
              /\ workers'[w] # workers[w]
              /\ Len(workers'[w].socket) <= Len(workers[w].socket))
             => (~workers'[w].alive /\ devices' = devices /\ delivered' = delivered)
         ]_vars

\* C30: a stop request made while no session is active answers
\* not_in_learning_mode, hands no event to the callback and leaves the active
\* flag, the buffer and the saved groups as they are
C30_StopWhileIdle ==
    [][(~learning_mode /\ StopLearningMode(FALSE, "", "")) =>
          /\ response' = "not_in_learning_mode"
          /\ delivered' = NoEvent
          /\ UNCHANGED <<learning_mode, learning_disconnects, physical_groups>>
      ]_vars

\* a stop request was answered not_in_learning_mode while the buffer held a
\* disconnect a thread of the listener appended after the session had ended
C30_Witness ==
    /\ response = "not_in_learning_mode"
    /\ ~learning_mode
    /\ delivered = NoEvent
    /\ Len(learning_disconnects) = 1

\* C39: a stop request that ends a session persists a group iff save is set, a
\* group was detected and the name is not empty; the status is "saved" in that
\* case and "cancelled" otherwise; the event handed to the subscribers is
\* learning_saved when the group was persisted and learning_cancelled otherwise
C39_SavedEventIffPersisted ==
    [][\A save \in BOOLEAN, name \in {"", "g1"} :
          (learning_mode /\ StopLearningMode(save, name, "")) =>
              LET persisted == physical_groups' # physical_groups
              IN  /\ persisted <=> (save /\ detected'.found /\ name # "")
                  /\ response' = IF persisted THEN "saved" ELSE "cancelled"
                  /\ delivered' # NoEvent
                  /\ \A i \in DOMAIN delivered' :
                         delivered'[i].type =
                             IF persisted THEN "learning_saved" ELSE "learning_cancelled"
      ]_vars

\* C32: whatever a handler emits reaches every registered callback once, in
\* the order of registration, although the first callback raises; a thread of
\* the listener that applied a notification and emitted its event stays alive
\* at its poll
C32_AllCallbacksInvoked ==
    /\ [](\/ delivered = NoEvent
          \/ /\ Len(delivered) = Len(callbacks)
             /\ \A i \in DOMAIN delivered : delivered[i] = delivered[1])
    /\ [][\A w \in 1..MaxWorkers :
             (WorkerPoll(w) /\ running) \/ (\E ts \in clock : WorkerTrack(w, ts)) =>
                 workers'[w].alive
         ]_vars

\* the callback registered after a raising one was called with the removal
\* of a device whose add event the raising callback had been called with
C32_Witness ==
    /\ callbacks[1] = "raises"
    /\ Len(delivered) = 2
    /\ delivered[2].type = "device_removed"
    /\ delivered[2].device = BuildUsbDevice("1-1")
    /\ \E w \in Alive : workers[w].pc = "poll"

(***************************************************************************)
(* Claims about the readers of the tree                                    *)
(***************************************************************************)
\* C36: whenever no rescan is under way, get_testable_hubs returns one entry
\* for every hub of the device map that is no root hub, and no other entry
C36_TestableHubsMatchMap ==
    scan.pc = "idle" =>
        \A p \in Ports :
            Occurrences(TestableHubs, p) = IF p \in NonRootHubs(devices) THEN 1 ELSE 0

\* C37: has_storage_devices() returns every storage device of the device map
\* once, and so does the list the last start request returned
C37_StorageListedOnce ==
    /\ \A p \in Ports :
           Occurrences(HasStorageDevices, p) =
               IF p \in DOMAIN devices /\ devices[p].device_class = "storage" THEN 1 ELSE 0
    /\ \A p \in Ports : Occurrences(storage_devices, p) <= 1

\* C31: a start request taken while no session is active makes the session
\* active with an empty buffer and returns "started", with a storage warning
\* iff the device map holds a storage device; during a session the removal of
\* a storage device of the map is appended to the buffer whatever the
\* exclude_storage flag is
C31_StartFromIdle ==
    /\ [][\A exclude_storage \in BOOLEAN :
             (~learning_mode /\ StartLearningMode(exclude_storage)) =>
                 /\ learning_mode'
                 /\ learning_disconnects' = << >>
                 /\ response' = "started"
                 /\ (storage_devices' # << >>) <=>
                        (\E p \in DOMAIN devices : devices[p].device_class = "storage")
         ]_vars
    /\ [][(/\ learning_mode
           /\ MonitorPoll
           /\ polled'.action = "remove"
           /\ polled'.port \in DOMAIN devices
           /\ devices[polled'.port].device_class = "storage") =>
               /\ Len(learning_disconnects') = Len(learning_disconnects) + 1
               /\ learning_disconnects'[Len(learning_disconnects')].port_path = polled'.port
         ]_vars

\* C28: while a learning session is active no step of a test_hub run
\* de-authorizes a device, and no disconnect of a device that test_hub holds
\* de-authorized is appended to the buffer of the session
C28_NoTestWhileLearning ==
    /\ [][learning_mode =>
             \A p \in Ports : authorized[p] = 1 => authorized'[p] = 1]_vars
    /\ [][Len(learning_disconnects') > Len(learning_disconnects) =>
             authorized[learning_disconnects'[Len(learning_disconnects')].port_path] = 1
         ]_vars

(***************************************************************************)
(* Claims about the pure functions                                         *)
(***************************************************************************)
\* C19: parse_speed gives the digits of n div 1000 and "G" for a numeric
\* input n >= 5000, the digits of n and "M" for a numeric input n < 5000, and
\* the empty or unknown marker for an empty or non-numeric input, never the
\* input itself
C19_SpeedFormat ==
    called \in {"usb_explorer.parse_speed", "usb_debug_tool.parse_speed"} =>
        IF IntParses(args)
        THEN LET n == IntOf(args)
             IN  /\ n >= 5000 => ret = IntStr(n \div 1000) \o <<"G">>
                 /\ n < 5000 => ret = IntStr(n) \o <<"M">>
        ELSE ret \in {<< >>, Unknown}

\* the claim for the function of usb_explorer alone
ExplorerSpeedFormat ==
    called = "usb_explorer.parse_speed" =>
        /\ IF IntParses(args)
           THEN LET n == IntOf(args)
                IN  /\ n >= 5000 => ret = IntStr(n \div 1000) \o <<"G">>
                    /\ n < 5000 => ret = IntStr(n) \o <<"M">>
           ELSE ret = << >>
        /\ args = <<"5", "0", "0", "0">> => ret = <<"5", "G">>
        /\ args = <<"4", "8", "0">> => ret = <<"4", "8", "0", "M">>

KnownDrivers ==
    {"hub", "usbhid", "hid-generic", "snd-usb-audio", "snd_usb_audio", "uvcvideo", "uvc",
     "usb-storage", "uas", "usblp", "btusb", "ath3k", "rtl8xxxu", "cdc_acm", "cdc_ether",
     "ch341", "cp210x", "ftdi_sio", "pl2303"}

\* C20: the rules of get_device_class apply in strict priority order, the
\* first match winning: the known drivers, then the type hint, then the input
\* flags, then the raw class code, then the child interfaces, else unknown; a
\* device whose driver is "hub" is a hub whatever the other properties are
C20_ClassPriority ==
    called = "get_device_class" =>
        LET code == IF args.bDeviceClass # << >> THEN args.bDeviceClass
                    ELSE args.sysfs_bDeviceClass
        IN  /\ args.driver = "hub" => ret = "hub"
            /\ args.driver = "usb-storage" => ret = "storage"
            /\ args.driver = "usbhid" =>
                   ret = IF args.keyboard THEN "hid_keyboard"
                         ELSE IF args.mouse THEN "hid_mouse" ELSE "hid_other"
            /\ args.driver \notin KnownDrivers =>
                 /\ args.id_type = "video" => ret = "video"
                 /\ args.id_type = "disk" => ret = "storage"
                 /\ args.id_type \notin {"video", "audio", "disk"} =>
                      /\ args.keyboard => ret = "hid_keyboard"
                      /\ (~args.keyboard /\ args.mouse) => ret = "hid_mouse"
                      /\ (~args.keyboard /\ ~args.mouse /\ args.input) => ret = "hid_other"
                      /\ (~args.keyboard /\ ~args.mouse /\ ~args.input) =>
                           /\ code = <<"0", "9">> => ret = "hub"
                           /\ code = <<"0", "8">> => ret = "storage"
                           /\ code = <<"e", "0">> => ret = "wireless"
                           /\ code \in {<< >>, <<"0", "0">>, <<"z", "z">>} =>
                                /\ args.children = << >> => ret = "unknown"
                                /\ (args.children # << >> /\ args.children[1].driver = "usbhid")
                                       => ret = "hid_keyboard"
                                /\ (args.children # << >> /\ args.children[1].driver = "uas")
                                       => ret = "storage"
                                /\ (/\ Len(args.children) = 2
                                    /\ args.children[1].bInterfaceClass = <<"f", "f">>
                                    /\ args.children[2].bInterfaceClass = <<"0", "e">>)
                                       => ret = "video"
                                /\ (\A i \in 1..Len(args.children) :
                                        args.children[i].bInterfaceClass = <<"f", "f">>)
                                       => ret = "unknown"

\* a device of the hub driver with a disk type hint, a keyboard flag, the
\* mass-storage class code and a storage interface is a hub
C20_Witness ==
    /\ called = "get_device_class"
    /\ args.driver = "hub"
    /\ args.id_type = "disk"
    /\ args.keyboard
    /\ args.bDeviceClass = <<"0", "8">>
    /\ args.children # << >>
    /\ args.children[1].driver = "uas"
    /\ ret = "hub"

\* the parent path of a port path: the last "."-segment dropped, or the root
\* hub of the bus when the path has no "."
DerivedParent ==
    [p \in TreePorts \ {"usb1", "usb2"} |->
        CASE p = "1-1"   -> "usb1"
          [] p = "1-2"   -> "usb1"
          [] p = "2-1"   -> "usb2"
          [] p = "1-1.1" -> "1-1"
          [] p = "1-1.2" -> "1-1"]

InputPorts == {args[i].port_path : i \in 1..Len(args)}

\* how often port p is in the forest: among the roots and among all children
TreeOccurrences(tree, p) ==
    LET Count(list) == Cardinality({i \in 1..Len(list) : list[i] = p})
        RECURSIVE Sum(_)
        Sum(ports) == IF ports = {} THEN 0
                      ELSE LET q == CHOOSE q \in ports : TRUE
                           IN  Count(tree.children[q]) + Sum(ports \ {q})
    IN  Count(tree.roots) + Sum(TreePorts)

\* the ports reached from the roots within n levels of children
RECURSIVE Reached(_, _)
Reached(tree, n) ==
    IF n = 0 THEN Elements(tree.roots)
    ELSE LET above == Reached(tree, n - 1)
         IN  above \cup UNION {Elements(tree.children[q]) : q \in above}

\* C11: the forest of _build_tree holds every input device exactly once, as a
\* root or as a child of one device, and a device attached as a child is
\* attached to the device at its derived parent path
C11_ForestHoldsEachDeviceOnce ==
    called = "_build_tree" =>
        /\ \A p \in TreePorts : TreeOccurrences(ret, p) = IF p \in InputPorts THEN 1 ELSE 0
        /\ Reached(ret, Len(args)) = InputPorts
        /\ \A q \in TreePorts : \A i \in 1..Len(ret.children[q]) :
               /\ q \in InputPorts
               /\ ret.children[q][i] \notin {"usb1", "usb2"}
               /\ DerivedParent[ret.children[q][i]] = q
               /\ ret.parent_path[ret.children[q][i]] = q

\* a hub below a hub below the root hub, listed deepest first
C11_Witness ==
    /\ called = "_build_tree"
    /\ Len(args) = 3
    /\ args[1].port_path = "1-1.1"
    /\ args[2].port_path = "usb1"
    /\ args[3].port_path = "1-1"
    /\ ret.roots = <<"usb1">>
    /\ ret.children["usb1"] = <<"1-1">>
    /\ ret.children["1-1"] = <<"1-1.1">>

FlaggedPorts == {args[i].port_path : i \in {j \in 1..Len(args) : args[j].is_root_hub}}

\* C12: a device is among the roots exactly when its is_root_hub flag is
\* true or its port path has the form usb<N>
C12_RootsAreRootHubs ==
    called = "_build_tree" =>
        \A p \in InputPorts :
            p \in Elements(ret.roots) <=> (p \in FlaggedPorts \/ p \in {"usb1", "usb2"})

\* C12 as amended: a device is among the roots exactly when its is_root_hub
\* flag is true, its port path has the form usb<N>, or no input device is at
\* its derived parent path
C12_RootsAreRootHubsOrOrphans ==
    called = "_build_tree" =>
        \A p \in InputPorts :
            p \in Elements(ret.roots) <=>
                \/ p \in FlaggedPorts
                \/ p \in {"usb1", "usb2"}
                \/ DerivedParent[p] \notin InputPorts

\* a root hub with a device below it, and a hub whose parent was not listed
C12_Witness ==
    /\ called = "_build_tree"
    /\ InputPorts = {"usb1", "1-2", "1-1.1"}
    /\ FlaggedPorts = {"usb1"}
    /\ ret.roots = <<"usb1", "1-1.1">>
    /\ ret.children["usb1"] = <<"1-2">>

\* the devices that are no root hubs by flag or by port path
NonRootInputs == InputPorts \ (FlaggedPorts \cup {"usb1", "usb2"})

\* C29: a device that is no root hub and whose derived parent path is the
\* port path of no input device is among the roots, once, and the input
\* devices whose derived parent path is its port path are its children
C29_OrphanIsRoot ==
    called = "_build_tree" =>
        \A p \in NonRootInputs :
            DerivedParent[p] \notin InputPorts =>
                /\ Cardinality({i \in 1..Len(ret.roots) : ret.roots[i] = p}) = 1
                /\ \A q \in NonRootInputs :
                       DerivedParent[q] = p =>
                           /\ q \in Elements(ret.children[p])
                           /\ ret.parent_path[q] = p

\* hub 1-1 listed without its root hub, with the two hubs below it
C29_Witness ==
    /\ called = "_build_tree"
    /\ InputPorts = {"1-1", "1-1.1", "1-1.2"}
    /\ FlaggedPorts = {}
    /\ ret.roots = <<"1-1">>
    /\ Elements(ret.children["1-1"]) = {"1-1.1", "1-1.2"}
    /\ ret.parent_path["1-1.1"] = "1-1"

====
